---- MODULE Spec2Model ----
(***************************************************************************)
(* A model of linear-construction: the access-structure model              *)
(* (access_structure.py), the block-vector helpers (code_description.py,   *)
(* codevector.py), the backtracking search (search_algorithm.py) and the   *)
(* coordinator / worker / monitor protocol (linear-construction.py).       *)
(***************************************************************************)
EXTENDS Integers, Sequences, FiniteSets, TLC

VARIABLES
    arg,        \* the constructor call under study: [n, gamma_min, create_dual]
    structs,    \* the AccessStructure objects built so far: <<AC, AC.dual(), ...>>
    pool,       \* the local `temp` of the last _calculate_group call at loop exit
    search,     \* the SearchAlgorithm object of the run (with args.skip)
    run,        \* the call of sequential_search from the root: its frames and result
    random,     \* the generator of the random module: its state, if it is known
    args,       \* the parsed command line of linear-construction.py
    task_queue, \* Manager().Queue(maxsize=args.queuesize)
    done_queue, \* Manager().Queue(maxsize=100)
    is_finished, \* Manager().Event()
    result,     \* Manager().list()
    builder,    \* task_builder_process: [pc, call]
    workers,    \* worker_processes: each [pc, call]
    monitor,    \* monitor_process: its pc
    main,       \* the parent process: [pc, next, gen_vec_matrix, output, exc]
    given,      \* the arguments of a call into code_description.py
    outcome     \* that call: the function called and what it returned or raised

acVars == <<arg, structs, pool>>
cdVars == <<given, outcome>>
seqVars == <<search, run, random>>
parVars == <<args, task_queue, done_queue, is_finished, result, builder, workers, monitor, main>>
vars == <<arg, structs, pool, search, run, random, args, task_queue, done_queue, is_finished,
          result, builder, workers, monitor, main,
          given, outcome>>

MaxProcessors == 2
MaxQueueSize == 1

(***************************************************************************)
(* Bounds of the model.                                                    *)
(***************************************************************************)
MaxN == 3        \* participants: n in 0..MaxN
MaxSets == 2     \* sets in the mapping passed to the constructor

(***************************************************************************)
(* Generic helpers: Python's set/list/dict iteration.                      *)
(***************************************************************************)
Range(s) == {s[i] : i \in DOMAIN s}

RECURSIVE Perms(_)
\* every order in which a Python set can be iterated
Perms(S) ==
    IF S = {} THEN {<<>>}
    ELSE UNION {{<<x>> \o p : p \in Perms(S \ {x})} : x \in S}

RECURSIVE Pow2(_)
Pow2(m) == IF m = 0 THEN 1 ELSE 2 * Pow2(m - 1)

\* sage.all.powerset of the participants {1..n}: the subsets in binary
\* counting order, [], [1], [2], [1,2], [3], ...
powerset(n) ==
    [b \in 1..Pow2(n) |-> {i \in 1..n : ((b - 1) \div Pow2(i - 1)) % 2 = 1}]

ascii_lowercase ==
    <<"a", "b", "c", "d", "e", "f", "g", "h", "i", "j", "k", "l", "m",
      "n", "o", "p", "q", "r", "s", "t", "u", "v", "w", "x", "y", "z">>

\* ascii_lowercase.index(c) + 1
LetterToParticipant(c) == CHOOSE i \in DOMAIN ascii_lowercase : ascii_lowercase[i] = c

\* mutant: participant i is written with the letter after its own
ParticipantToLetter_next(i) == ascii_lowercase[i + 1]

\* ascii_lowercase[i - 1]
ParticipantToLetter(i) == ascii_lowercase[i]

(***************************************************************************)
(* access_structure.py                                                     *)
(***************************************************************************)
\* mutant: the walk over the power set starts after the empty set
_calculate_sets_skip_empty(n, gamma_min) ==
    LET ps == powerset(n)
        qualified(s) == \E i \in DOMAIN gamma_min : gamma_min[i] \subseteq s
    IN  [gamma |-> SelectSeq(SubSeq(ps, 2, Len(ps)), qualified),
         delta |-> SelectSeq(SubSeq(ps, 2, Len(ps)), LAMBDA s : ~qualified(s))]

\* mutant: the subset test is reversed (s <= i for i <= s)
_calculate_sets_reversed(n, gamma_min) ==
    LET ps == powerset(n)
        qualified(s) == \E i \in DOMAIN gamma_min : s \subseteq gamma_min[i]
    IN  [gamma |-> SelectSeq(ps, qualified),
         delta |-> SelectSeq(ps, LAMBDA s : ~qualified(s))]

\* gamma and delta as the two lists built while walking the power set
_calculate_sets(n, gamma_min) ==
    LET ps == powerset(n)
        qualified(s) == \E i \in DOMAIN gamma_min : gamma_min[i] \subseteq s
    IN  [gamma |-> SelectSeq(ps, qualified),
         delta |-> SelectSeq(ps, LAMBDA s : ~qualified(s))]

MaxLen(temp) == CHOOSE m \in {Cardinality(i) : i \in temp} :
                    \A i \in temp : Cardinality(i) <= m

\* mutant: only the strict subsets of the committed sets leave the pool
_calculate_group_body_strict(temp, s) ==
    temp \ {i \in temp : \E j \in s : i \subseteq j /\ i # j}

\* temp - s - {i for i in temp if any(i <= j for j in s)}
_calculate_group_body(temp, s) ==
    (temp \ s) \ {i \in temp : \E j \in s : i \subseteq j}

RECURSIVE _calculate_group_loop(_, _, _)
\* The while loop of _calculate_group from the state (temp, res), run for at
\* most `fuel` iterations: every (res, temp) it can end in.  The keys of one
\* round are given in the iteration order of the Python set s, which the
\* language leaves open.
_calculate_group_loop(temp, res, fuel) ==
    IF temp = {} \/ fuel = 0 THEN {[res |-> res, temp |-> temp]}
    ELSE LET s == {i \in temp : Cardinality(i) = MaxLen(temp)}
         IN  UNION {_calculate_group_loop(_calculate_group_body(temp, s),
                                          res \o p, fuel - 1) : p \in Perms(s)}

\* _calculate_group(max, groups); the loop runs at most once per pooled set
_calculate_group(groups) ==
    _calculate_group_loop(Range(groups), <<>>, Cardinality(Range(groups)) + 1)

\* mutant: the set itself, not its complement, is looked up
_calculate_dual_gamma_min_nocompl(n, delta, delta_max) ==
    SelectSeq(powerset(n), LAMBDA x : x \in Range(delta_max))

\* AccessStructure._calculate_dual_gamma_min
_calculate_dual_gamma_min(n, delta, delta_max) ==
    SelectSeq(powerset(n), LAMBDA x : ((1..n) \ x) \in Range(delta_max))

\* The attributes of an AccessStructure whose gamma_min is gm, for each outcome
\* g of the _calculate_group call.
Attributes(n, gm) ==
    LET gd == _calculate_sets(n, gm)
    IN  {[ac |-> [participants |-> 1..n, gamma_min |-> gm, gamma |-> gd.gamma,
                  delta |-> gd.delta, delta_max |-> g.res],
          temp |-> g.temp] : g \in _calculate_group(gd.delta)}

\* mutant: the letter a is participant 0
__init__gamma_min_zero_based(gamma_min) ==
    [k \in DOMAIN gamma_min |-> {LetterToParticipant(c) - 1 : c \in gamma_min[k]}]

\* AccessStructure.__init__, lines 53-55: the mapping with letters as participants
__init__gamma_min(gamma_min) ==
    [k \in DOMAIN gamma_min |-> {LetterToParticipant(c) : c \in gamma_min[k]}]

\* mutant: with create_dual the sets are not calculated again from the dual's
\* gamma_min
__init__without_recalculation(n, self) ==
    {[ac |-> [self EXCEPT !.gamma_min =
                    _calculate_dual_gamma_min(n, self.delta, self.delta_max)],
      temp |-> {}]}

\* AccessStructure.__init__, lines 58-61: the branch for create_dual, from the
\* attributes self has at line 57
__init__create_dual(n, self) ==
    Attributes(n, _calculate_dual_gamma_min(n, self.delta, self.delta_max))

\* AccessStructure.__init__: every object the call can build (with its last
\* _calculate_group pool)
__init__(n, gamma_min, create_dual) ==
    LET first == Attributes(n, __init__gamma_min(gamma_min))
    IN  IF ~create_dual THEN first
        ELSE UNION {__init__create_dual(n, f.ac) : f \in first}

\* AccessStructure.dual: the dual's sets written with letters and passed to the
\* constructor
dual(self) ==
    LET n == Cardinality(self.participants)
        dgm == _calculate_dual_gamma_min(n, self.delta, self.delta_max)
        gamma_min_dual == [k \in DOMAIN dgm |-> {ParticipantToLetter(i) : i \in dgm[k]}]
    IN  __init__(n, gamma_min_dual, FALSE)

\* mutant: the numbers of stored sets are not compared
__eq__without_len(self, other) ==
    /\ self.participants = other.participants
    /\ \A i \in Range(self.gamma_min) : i \in Range(other.gamma_min)
    /\ \A i \in Range(other.gamma_min) : i \in Range(self.gamma_min)
    /\ \A i \in Range(self.delta_max) : i \in Range(other.delta_max)
    /\ \A i \in Range(other.delta_max) : i \in Range(self.delta_max)

\* AccessStructure.__eq__
__eq__(self, other) ==
    /\ self.participants = other.participants
    /\ Len(self.gamma_min) = Len(other.gamma_min)
    /\ \A i \in Range(self.gamma_min) : i \in Range(other.gamma_min)
    /\ \A i \in Range(other.gamma_min) : i \in Range(self.gamma_min)
    /\ Len(self.delta_max) = Len(other.delta_max)
    /\ \A i \in Range(self.delta_max) : i \in Range(other.delta_max)
    /\ \A i \in Range(other.delta_max) : i \in Range(self.delta_max)

(***************************************************************************)
(* The algebra provider (Sage) over a prime field GF(q): vectors are        *)
(* sequences over 0..q-1, matrices are sequences of rows.                   *)
(***************************************************************************)
RECURSIVE Sum(_)
\* Python's sum over a sequence of integers
Sum(seq) == IF seq = <<>> THEN 0 ELSE seq[1] + Sum(Tail(seq))

RECURSIVE SumSet(_)
\* Python's sum over a set of integers
SumSet(S) == IF S = {} THEN 0 ELSE LET x == CHOOSE x \in S : TRUE IN x + SumSet(S \ {x})

Max(S) == CHOOSE m \in S : \A x \in S : x <= m

RECURSIVE Power(_, _)
Power(b, e) == IF e = 0 THEN 1 ELSE b * Power(b, e - 1)

Zero(m) == [i \in 1..m |-> 0]

is_zero(v) == \A i \in DOMAIN v : v[i] = 0

VecAdd(q, a, b) == [i \in DOMAIN a |-> (a[i] + b[i]) % q]

VecSub(q, a, b) == [i \in DOMAIN a |-> (a[i] + q - b[i]) % q]

VecScale(q, c, a) == [i \in DOMAIN a |-> (c * a[i]) % q]

\* the row vector v times the matrix M (ncols columns)
VecMat(q, v, M, ncols) ==
    [j \in 1..ncols |-> Sum([i \in DOMAIN v |-> v[i] * M[i][j]]) % q]

\* u.outer_product(w)
OuterProduct(q, u, w) == [i \in DOMAIN u |-> [j \in DOMAIN w |-> (u[i] * w[j]) % q]]

MatAdd(q, A, B) == [i \in DOMAIN A |-> VecAdd(q, A[i], B[i])]

MatSub(q, A, B) == [i \in DOMAIN A |-> VecSub(q, A[i], B[i])]

\* M[:, j].list()
Column(M, j) == [i \in DOMAIN M |-> M[i][j]]

identity(m) == [i \in 1..m |-> [j \in 1..m |-> IF i = j THEN 1 ELSE 0]]

\* matrix(finite_field, [[0] * k] * m)
ZeroMatrix(m, k) == [i \in 1..m |-> Zero(k)]

inverse_mod(a, q) == CHOOSE b \in 1..(q - 1) : (a * b) % q = 1

\* all vectors of length m over GF(q)
AllVectors(q, m) == [1..m -> 0..(q - 1)]

\* span(gens, GF(q)) in GF(q)^m, as the set of its elements
span(q, gens, m) ==
    {LET F[S \in SUBSET gens] ==
            IF S = {} THEN Zero(m)
            ELSE LET g == CHOOSE g \in S : TRUE
                 IN  VecAdd(q, VecScale(q, co[g], g), F[S \ {g}])
     IN  F[gens] : co \in [gens -> 0..(q - 1)]}

\* the value whose digits in base q, most significant first, are v
Lex(q, v) == Sum([i \in DOMAIN v |-> v[i] * Power(q, Len(v) - i)])

\* a set of vectors as the list itertools.product yields them: in
\* lexicographic order of the element tuples
RECURSIVE InLexOrder(_, _)
InLexOrder(q, S) ==
    IF S = {} THEN <<>>
    ELSE LET v == CHOOSE v \in S : \A w \in S : Lex(q, v) <= Lex(q, w)
         IN  <<v>> \o InLexOrder(q, S \ {v})

(***************************************************************************)
(* codevector.py and code_description.py                                   *)
(***************************************************************************)
\* an exception raised instead of a value returned
Raise(name) == [exc |-> name]

Raised(r) == "exc" \in DOMAIN r

\* Vector(c, base_ring, pi)
Vector(c, pi) == [c |-> c, parameters |-> pi]

\* Vector.all_zero
all_zero(pi) == Vector(Zero(Sum(pi)), pi)

\* Vector.__iter__: the i-th block self.c[i:s+i] (i counted from 1)
Block(v, i) ==
    LET start == Sum(SubSeq(v.parameters, 1, i - 1))
    IN  SubSeq(v.c, start + 1, start + v.parameters[i])

\* mutant: only the first coordinate of a block is looked at
p_support_of_first_coordinates(v) ==
    {i \in DOMAIN v.parameters : v.parameters[i] > 0 /\ Block(v, i)[1] # 0}

p_support(v) == {i \in DOMAIN v.parameters : ~is_zero(Block(v, i))}

\* mutant: the test j == 0 is left out
jth_unit_vector_without_zero_test(j, dim) ==
    IF j > dim THEN Raise("ValueError")
    ELSE IF j - 1 < 0 - dim THEN Raise("IndexError")
    ELSE LET at == IF j <= 0 THEN dim + j ELSE j
         IN  [vector |-> [i \in 1..dim |-> IF i = at THEN 1 ELSE 0]]

\* the vector returned, as [vector |-> e], or the exception raised
jth_unit_vector(j, dim) ==
    IF j > dim THEN Raise("ValueError")
    ELSE IF j = 0 THEN Raise("ValueError")
    ELSE IF j - 1 < 0 - dim THEN Raise("IndexError")
    ELSE LET at == IF j < 0 THEN dim + j ELSE j     \* e[j - 1] counts from the end for j < 0
         IN  [vector |-> [i \in 1..dim |-> IF i = at THEN 1 ELSE 0]]

RECURSIVE Concat(_)
Concat(seqs) == IF seqs = <<>> THEN <<>> ELSE seqs[1] \o Concat(Tail(seqs))

\* mutant: the loops are nested the other way round
epsilon_i_major(r, k) == Concat([i \in 1..r |-> [j \in 1..k |-> <<i, j>>]])

\* [(i, j) for j in range(1, k+1) for i in range(1, r+1)]
epsilon(r, k) == Concat([j \in 1..k |-> [i \in 1..r |-> <<i, j>>]])

\* a set of integers as the ascending list sorted(x)
RECURSIVE sorted(_)
sorted(x) ==
    IF x = {} THEN <<>>
    ELSE LET m == CHOOSE m \in x : \A y \in x : m <= y
         IN  <<m>> \o sorted(x \ {m})

\* mutant: the result keeps the whole partition
projection_keeps_partition(v, x, pi) ==
    IF x = {} THEN Raise("ValueError")
    ELSE Vector(Concat([i \in DOMAIN v.parameters |->
                            IF i \in x THEN Block(v, i) ELSE <<>>]), pi)

\* mutant: the empty set is projected onto like any other
projection_of_nothing(v, x, pi) ==
    LET xs == sorted(x)
    IN  Vector(Concat([i \in DOMAIN v.parameters |->
                            IF i \in x THEN Block(v, i) ELSE <<>>]),
               [m \in DOMAIN xs |-> pi[xs[m]]])

projection(v, x, pi) ==
    IF x = {} THEN Raise("ValueError")
    ELSE LET xs == sorted(x)
         IN  Vector(Concat([i \in DOMAIN v.parameters |->
                                IF i \in x THEN Block(v, i) ELSE <<>>]),
                    [m \in DOMAIN xs |-> pi[xs[m]]])

\* base_ring.list() of the prime field GF(q)
base_ring_list(q) == [i \in 1..q |-> i - 1]

\* mutant: the leftmost list advances first
product_of_two_leftmost_first(heads, tails) ==
    [n \in 1..(Len(heads) * Len(tails)) |->
        heads[((n - 1) % Len(heads)) + 1] \o tails[((n - 1) \div Len(heads)) + 1]]

\* itertools.product of two lists of tuples, each pair chained into one tuple:
\* the rightmost list advances first
product_of_two(heads, tails) ==
    [n \in 1..(Len(heads) * Len(tails)) |->
        heads[((n - 1) \div Len(tails)) + 1] \o tails[((n - 1) % Len(tails)) + 1]]

RECURSIVE product_repeat(_, _)
\* product(elements, repeat=n) as a list of n-tuples
product_repeat(elements, n) ==
    IF n = 0 THEN <<<<>>>>
    ELSE product_of_two(product_repeat(elements, n - 1),
                        [i \in DOMAIN elements |-> <<elements[i]>>])

RECURSIVE product_chained(_)
\* list(chain.from_iterable(p)) for every p of product(*parts), in order
product_chained(parts) ==
    IF parts = <<>> THEN <<<<>>>>
    ELSE product_of_two(product_chained(SubSeq(parts, 1, Len(parts) - 1)), parts[Len(parts)])

\* mutant: every participant's block runs over the whole field
generate_label_everywhere(participants, pi, x_i, q, lin_span) ==
    LET ps == sorted(participants)
        parts == [n \in DOMAIN ps |-> product_repeat(base_ring_list(q), pi[ps[n]])]
        yielded == SelectSeq(product_chained(parts),
                             LAMBDA vec : vec # Zero(Sum(pi)) /\ vec \notin lin_span)
    IN  [i \in DOMAIN yielded |-> Vector(yielded[i], pi)]

\* the labels in the order generate_label yields them; the set of
\* participants is iterated in ascending order
generate_label(participants, pi, x_i, q, lin_span) ==
    LET ps == sorted(participants)
        parts == [n \in DOMAIN ps |->
                    IF ps[n] \in x_i THEN product_repeat(base_ring_list(q), pi[ps[n]])
                    ELSE <<Zero(pi[ps[n]])>>]
        yielded == SelectSeq(product_chained(parts),
                             LAMBDA vec : vec # Zero(Sum(pi)) /\ vec \notin lin_span)
    IN  [i \in DOMAIN yielded |-> Vector(yielded[i], pi)]

(***************************************************************************)
(* search_algorithm.py: the admissibility test.  `search` is self.         *)
(***************************************************************************)
\* a label that is a list of Vectors (the free-direction label)
List(items) == [items |-> items]

isinstance_Vector(label) == "c" \in DOMAIN label

isinstance_list(label) == "items" \in DOMAIN label

\* the outcome (b, ab, bb, cb) of an admissibility test
Outcome(b, ab, bb, cb) == [b |-> b, ab |-> ab, bb |-> bb, cb |-> cb]

\* the first index j with c[j] nonzero, 0 for None
FirstNonzero(c) ==
    IF is_zero(c) THEN 0 ELSE CHOOSE j \in DOMAIN c : c[j] # 0 /\ \A h \in 1..(j - 1) : c[h] = 0

RECURSIVE Lemma_5_10(_, _, _, _, _, _, _)
\* _d_plus, lines 299-315: the loop over the maximal forbidden sets from index
\* i on, with the copies (ab, bb) updated so far
Lemma_5_10(i, label, e_js, aa, ba, ab, bb) ==
    LET q == search.base_ring
        d == search.ac.delta_max
    IN  IF i > Len(d) THEN [stop |-> FALSE, ab |-> ab, bb |-> bb]
        ELSE LET c_proj_to_d_compl ==
                    projection(label, search.ac.participants \ d[i], search.parameters)
             IN  IF Raised(c_proj_to_d_compl) THEN c_proj_to_d_compl
                 ELSE LET c == c_proj_to_d_compl.c
                          f == VecSub(q, e_js, VecMat(q, c, aa[i], search.k))
                          c_proj_ba == VecMat(q, c, ba[i], Len(c))
                          b_idx == FirstNonzero(c_proj_ba)
                          c_proj_b_inv == inverse_mod(c_proj_ba[b_idx], q)
                          temp == Column(ba[i], b_idx)
                          bb_i == MatSub(q, ba[i],
                                    OuterProduct(q, temp, VecScale(q, c_proj_b_inv, c_proj_ba)))
                          ab_i == IF is_zero(f) THEN ab[i]
                                  ELSE MatAdd(q, aa[i],
                                        OuterProduct(q, temp, VecScale(q, c_proj_b_inv, f)))
                      IN  IF b_idx # 0
                          THEN Lemma_5_10(i + 1, label, e_js, aa, ba,
                                          [ab EXCEPT ![i] = ab_i], [bb EXCEPT ![i] = bb_i])
                          ELSE IF ~is_zero(f) THEN [stop |-> TRUE, ab |-> ab, bb |-> bb]
                          ELSE Lemma_5_10(i + 1, label, e_js, aa, ba, ab, bb)

(***************************************************************************)
(* The random module. Its generator is a state machine: a call reads the    *)
(* state, returns what the state determines and leaves the next state. The  *)
(* states are the numbers below Period, one step a full-period congruence.  *)
(***************************************************************************)
Period == 8

\* the state one draw leaves
advance(state) == (5 * state + 3) % Period

\* the state k draws leave
RECURSIVE getstate(_, _)
getstate(k, state) == IF k = 0 THEN state ELSE getstate(k - 1, advance(state))

\* random.sample(population, k) from a known state: k draws without
\* replacement, each determined by the state it finds
RECURSIVE sample(_, _, _)
sample(population, k, state) ==
    IF k = 0 THEN <<>>
    ELSE LET at == (state % Len(population)) + 1
         IN  <<population[at]>>
             \o sample(SubSeq(population, 1, at - 1)
                            \o SubSeq(population, at + 1, Len(population)),
                       k - 1, advance(state))

\* mutant: the combination is not tested on the complement of the node's set
Lemma_5_11_unprojected(s_a, e_js, b_comp, node_compl_parameters, aa, ba, ca) ==
    LET q == search.base_ring
        e_jm == [m \in 1..Max(s_a) |->
                    IF m \in s_a THEN jth_unit_vector(search.eps[m][2], search.k).vector
                    ELSE <<>>]
        potential_bs == AllVectors(q, Cardinality(s_a))
        Comb(potential_b, vs, len) ==
            LET F[S \in SUBSET s_a] ==
                    IF S = {} THEN Zero(len)
                    ELSE LET m == CHOOSE m \in S : TRUE
                         IN  VecAdd(q, VecScale(q, potential_b[m], vs[m]), F[S \ {m}])
            IN  F[s_a]
        found == {potential_b \in potential_bs : Comb(potential_b, e_jm, Len(e_js)) = e_js}
    IN  IF found = {} THEN {Outcome(FALSE, aa, ba, ca)}
        ELSE {Outcome(TRUE, aa, ba,
                      Append(ca, Vector(Comb(potential_b, [m \in 1..Max(s_a) |-> ca[m].c],
                                             Sum(search.parameters)),
                                        search.parameters)))
                : potential_b \in found}

\* _d_plus, lines 318-329: every outcome of the search over the scalar
\* combinations, which are tried in a random order (the one order the
\* generator's state gives, if the state is known)
Lemma_5_11(s_a, e_js, b_comp, node_compl_parameters, aa, ba, ca) ==
    LET q == search.base_ring
        e_js_zero == e_js \o Zero(Sum(node_compl_parameters))
        e_jm == [m \in 1..Max(s_a) |->
                    IF m \in s_a THEN jth_unit_vector(search.eps[m][2], search.k).vector
                    ELSE <<>>]
        c_m_proj == [m \in 1..Max(s_a) |->
                    IF m \in s_a THEN projection(ca[m], b_comp, search.parameters)
                    ELSE all_zero(<<>>)]
        e_jm_c_m_proj == [m \in 1..Max(s_a) |-> e_jm[m] \o c_m_proj[m].c]
        potential_bs == AllVectors(q, Cardinality(s_a))
        Comb(potential_b, vs, len) ==
            LET F[S \in SUBSET s_a] ==
                    IF S = {} THEN Zero(len)
                    ELSE LET m == CHOOSE m \in S : TRUE
                         IN  VecAdd(q, VecScale(q, potential_b[m], vs[m]), F[S \ {m}])
            IN  F[s_a]
        found == {potential_b \in potential_bs :
                    Comb(potential_b, e_jm_c_m_proj, Len(e_js_zero)) = e_js_zero}
        first == IF ~random.seeded \/ found = {} THEN found
                 ELSE LET order == sample(InLexOrder(q, potential_bs),
                                          Cardinality(potential_bs), random.state)
                      IN  {order[CHOOSE i \in DOMAIN order :
                                    /\ order[i] \in found
                                    /\ \A h \in 1..(i - 1) : order[h] \notin found]}
    IN  IF \E m \in s_a : Raised(c_m_proj[m])
        THEN {CHOOSE e \in {c_m_proj[m] : m \in s_a} : Raised(e)}
        ELSE IF found = {} THEN {Outcome(FALSE, aa, ba, ca)}
        ELSE {Outcome(TRUE, aa, ba,
                      Append(ca, Vector(Comb(potential_b, [m \in 1..Max(s_a) |-> ca[m].c],
                                             Sum(search.parameters)),
                                        search.parameters)))
                : potential_b \in first}

\* mutant: an accepted label is not appended to the candidates
_d_plus_keeps_ca(label, s_a, e_js, b_comp, node_compl_parameters, aa, ba, ca) ==
    IF isinstance_Vector(label) /\ ~is_zero(label.c)
    THEN LET r == Lemma_5_10(1, label, e_js, aa, ba, aa, ba)
         IN  IF Raised(r) THEN {r}
             ELSE {Outcome(~r.stop, r.ab, r.bb, ca)}
    ELSE {Outcome(FALSE, aa, ba, ca)}

\* mutant: a list is accepted also when the test of the sum fails
_d_plus_accepts_other_sets(label, s_a, e_js, b_comp, node_compl_parameters, aa, ba, ca) ==
    IF isinstance_Vector(label) /\ ~is_zero(label.c)
    THEN LET r == Lemma_5_10(1, label, e_js, aa, ba, aa, ba)
         IN  IF Raised(r) THEN {r}
             ELSE {Outcome(~r.stop, r.ab, r.bb, Append(ca, label))}
    ELSE IF isinstance_list(label) /\ ca # <<>>
    THEN IF s_a = {} THEN {Raise("ValueError")}
         ELSE IF SumSet(s_a) = (Max(s_a) * (Max(s_a) + 1)) \div 2
         THEN Lemma_5_11(s_a, e_js, b_comp, node_compl_parameters, aa, ba, ca)
         ELSE {Outcome(TRUE, aa, ba, ca)}
    ELSE {Outcome(FALSE, aa, ba, ca)}

\* SearchAlgorithm._d_plus: the set of its outcomes, each (b, ab, bb, cb) or an
\* exception raised
_d_plus(label, s_a, e_js, b_comp, node_compl_parameters, aa, ba, ca) ==
    IF isinstance_Vector(label) /\ ~is_zero(label.c)
    THEN LET r == Lemma_5_10(1, label, e_js, aa, ba, aa, ba)
         IN  IF Raised(r) THEN {r}
             ELSE {Outcome(~r.stop, r.ab, r.bb, Append(ca, label))}
    ELSE IF isinstance_list(label) /\ ca # <<>>
    THEN IF s_a = {} THEN {Raise("ValueError")}      \* max() of an empty set
         ELSE IF SumSet(s_a) = (Max(s_a) * (Max(s_a) + 1)) \div 2
         THEN Lemma_5_11(s_a, e_js, b_comp, node_compl_parameters, aa, ba, ca)
         ELSE {Outcome(FALSE, aa, ba, ca)}
    ELSE {Outcome(FALSE, aa, ba, ca)}

\* SearchAlgorithm._determine_d_plus
_determine_d_plus(level, x_i, potential_label, s_n, aa, ba, ca) ==
    LET compl_of_this_node == search.ac.participants \ x_i
        cs == sorted(compl_of_this_node)
        share_size_of_compl == [m \in DOMAIN cs |-> search.parameters[cs[m]]]
        e_js == jth_unit_vector(search.eps[level][2], search.k)
    IN  IF Raised(e_js) THEN {e_js}
        ELSE _d_plus(potential_label, s_n, e_js.vector, compl_of_this_node,
                     share_size_of_compl, aa, ba, ca)

\* SearchAlgorithm._break_labels on a list of Vectors
_break_labels(labels) ==
    IF labels = <<>> THEN <<all_zero(search.parameters)>> ELSE labels

(***************************************************************************)
(* search_algorithm.py: sequential_search as a machine of call frames.     *)
(* A call is a record [stack, status, value, exc]: the frames of the calls  *)
(* in progress (the innermost last), and the value a callee has just        *)
(* returned ("resume"), the value of the outermost call ("returned") or the *)
(* exception that left it ("raised").                                       *)
(***************************************************************************)
\* the decimal digits of a positive integer: str(i)
RECURSIVE Digits(_)
Digits(i) == IF i < 10 THEN <<i>> ELSE Digits(i \div 10) \o <<i % 10>>

\* "".join(str(i) for i in self.eps[level - 1])
eps_for_this_level(level) == Digits(search.eps[level][1]) \o Digits(search.eps[level][2])

\* the set X_i of a level: self.ac.gamma_min[int(eps_for_this_level[0])], the
\* key of the dict taken from the first character of the level's string
x_i_of(level) == search.ac.gamma_min[eps_for_this_level(level)[1]]

\* mutant: a call goes straight to the labels of generate_label
Frame_without_free_direction(level, s_m, s_n, aa, ba, ca, skip) ==
    [level |-> level, s_m |-> s_m, s_n |-> s_n, aa |-> aa, ba |-> ba, ca |-> ca,
     skip |-> skip, pc |-> IF level > search.height THEN "start" ELSE "generate",
     res |-> <<>>, span_of_labels |-> {<<>>}, generated_labels |-> <<>>, todo |-> 0]

\* the locals of one call of sequential_search; skip counts halves
Frame(level, s_m, s_n, aa, ba, ca, skip) ==
    [level |-> level, s_m |-> s_m, s_n |-> s_n, aa |-> aa, ba |-> ba, ca |-> ca,
     skip |-> skip, pc |-> "start", res |-> <<>>, span_of_labels |-> {},
     generated_labels |-> <<>>, todo |-> 0]

Running(stack) == [stack |-> stack, status |-> "running", value |-> <<>>, exc |-> ""]

Top(c) == c.stack[Len(c.stack)]

SetTop(c, frame) == Running([c.stack EXCEPT ![Len(c.stack)] = frame])

\* the innermost call calls sequential_search again
Call(c, frame, callee) == Running(Append([c.stack EXCEPT ![Len(c.stack)] = frame], callee))

\* the innermost call returns value
Return(c, value) ==
    LET rest == SubSeq(c.stack, 1, Len(c.stack) - 1)
    IN  [stack |-> rest, status |-> IF rest = <<>> THEN "returned" ELSE "resume",
         value |-> value, exc |-> ""]

\* nothing in the package catches: the exception leaves every call
Propagate(e) == [stack |-> <<>>, status |-> "raised", value |-> <<>>, exc |-> e.exc]

AtPc(c, pc) == c.status = "running" /\ c.stack # <<>> /\ Top(c).pc = pc

\* list(s_m.values()), s_m a mapping from digit strings to Vectors
values(s_m) ==
    LET keys == InLexOrder(10, DOMAIN s_m)
    IN  [i \in DOMAIN keys |-> s_m[keys[i]]]

\* lines 86-87
sequential_search_leaf(c) ==
    IF AtPc(c, "start") /\ Top(c).level > search.height
    THEN {Return(c, Top(c).ca)} ELSE {}

\* lines 89-106: the free-direction label and its test
sequential_search_closure(c) ==
    IF ~(AtPc(c, "start") /\ Top(c).level <= search.height) THEN {}
    ELSE LET f == Top(c)
             key == eps_for_this_level(f.level)
             x_i == x_i_of(f.level)
             labels == _break_labels(values(f.s_m))
             span_of_labels == span(search.base_ring, {labels[i].c : i \in DOMAIN labels},
                                    Sum(search.parameters))
             inside == InLexOrder(search.base_ring,
                            {v \in span_of_labels :
                                p_support(Vector(v, search.parameters)) \subseteq x_i})
             lab == _break_labels([i \in DOMAIN inside |-> Vector(inside[i], search.parameters)])
             g == [f EXCEPT !.span_of_labels = span_of_labels]
         IN  {IF Raised(o) THEN Propagate(o)
              ELSE IF o.b
              THEN Call(c, [g EXCEPT !.pc = "closure_called"],
                        Frame(f.level + 1, f.s_m, f.s_n, o.ab, o.bb, o.cb, f.skip))
              ELSE SetTop(c, [g EXCEPT !.pc = "generate"])
                : o \in _determine_d_plus(f.level, x_i, List(lab), f.s_n, f.aa, f.ba, f.ca)}

\* mutant: a non-empty result is kept in res and the node goes on to its next
\* label
sequential_search_resume_goes_on(c) ==
    IF ~(c.status = "resume") THEN {}
    ELSE LET f == Top(c)
         IN  {SetTop(c, [f EXCEPT !.res = c.value,
                                   !.pc = IF f.pc = "closure_called"
                                          THEN "generate" ELSE "loop"])}

\* lines 106-108 and 119-121: the value of the call just returned
sequential_search_resume(c) ==
    IF ~(c.status = "resume") THEN {}
    ELSE LET f == Top(c)
         IN  IF c.value # <<>> THEN {Return(c, c.value)}
             ELSE {SetTop(c, [f EXCEPT !.res = c.value,
                                       !.pc = IF f.pc = "closure_called"
                                              THEN "generate" ELSE "loop"])}

\* mutant: the sample is taken with replacement, every label twice
sequential_search_sample_twice(c) ==
    IF ~AtPc(c, "generate") THEN {}
    ELSE LET f == Top(c)
             population == generate_label(search.ac.participants, search.parameters,
                                          x_i_of(f.level), search.base_ring,
                                          f.span_of_labels)
         IN  {SetTop(c, [f EXCEPT !.generated_labels = population \o population,
                                  !.todo = (2 - f.skip) * Len(population),
                                  !.pc = "loop"])}

\* lines 110-111: the labels and how many of them random.sample keeps; from
\* a known state of the generator, the labels kept in the order of the sample
sequential_search_sample(c) ==
    IF ~AtPc(c, "generate") THEN {}
    ELSE LET f == Top(c)
             x_i == x_i_of(f.level)
             population == generate_label(search.ac.participants, search.parameters, x_i,
                                          search.base_ring, f.span_of_labels)
             k == ((2 - f.skip) * Len(population)) \div 2
         IN  {SetTop(c, [f EXCEPT !.generated_labels =
                                        IF random.seeded
                                        THEN sample(population, k, random.state)
                                        ELSE population,
                                  !.todo = k,
                                  !.pc = "loop"])}

\* mutant: the loop takes the labels in an order of its own
delivered_in_any_order(generated_labels) == DOMAIN generated_labels

\* the places in generated_labels of the label the loop may take next: the
\* first one of a sample whose order is known, else any
delivered(generated_labels) ==
    IF random.seeded THEN {1} ELSE DOMAIN generated_labels

\* {**s_m, eps_for_this_level: potential_label}
ExtendPath(s_m, key, potential_label) ==
    [kk \in DOMAIN s_m \cup {key} |-> IF kk = key THEN potential_label ELSE s_m[kk]]

\* mutant: _d_plus works on the matrices and the list it is given, and the
\* node goes on with what the test of a label left in them
sequential_search_loop_in_place(c) ==
    IF ~(AtPc(c, "loop") /\ Top(c).todo > 0) THEN {}
    ELSE LET f == Top(c)
             key == eps_for_this_level(f.level)
             x_i == x_i_of(f.level)
         IN  UNION {
               LET potential_label == f.generated_labels[at]
                   s_n == f.s_n \cup {f.level}
                   s_m == ExtendPath(f.s_m, key, potential_label)
                   g == [f EXCEPT !.s_n = s_n, !.s_m = s_m, !.todo = f.todo - 1,
                                  !.generated_labels =
                                        SubSeq(f.generated_labels, 1, at - 1)
                                        \o SubSeq(f.generated_labels, at + 1,
                                                  Len(f.generated_labels))]
               IN  {IF Raised(o) THEN Propagate(o)
                    ELSE IF o.b
                    THEN Call(c, [g EXCEPT !.pc = "loop_called", !.aa = o.ab,
                                           !.ba = o.bb, !.ca = o.cb],
                              Frame(f.level + 1, s_m, s_n, o.ab, o.bb, o.cb, f.skip))
                    ELSE SetTop(c, [g EXCEPT !.aa = o.ab, !.ba = o.bb, !.ca = o.cb])
                      : o \in _determine_d_plus(f.level, x_i, potential_label, s_n,
                                                f.aa, f.ba, f.ca)}
               : at \in delivered(f.generated_labels)}

\* lines 113-119: one turn of the loop, on the next label of the sample
sequential_search_loop(c) ==
    IF ~(AtPc(c, "loop") /\ Top(c).todo > 0) THEN {}
    ELSE LET f == Top(c)
             key == eps_for_this_level(f.level)
             x_i == x_i_of(f.level)
         IN  UNION {
               LET potential_label == f.generated_labels[at]
                   s_n == f.s_n \cup {f.level}
                   s_m == ExtendPath(f.s_m, key, potential_label)
                   g == [f EXCEPT !.s_n = s_n, !.s_m = s_m, !.todo = f.todo - 1,
                                  !.generated_labels =
                                        SubSeq(f.generated_labels, 1, at - 1)
                                        \o SubSeq(f.generated_labels, at + 1,
                                                  Len(f.generated_labels))]
               IN  {IF Raised(o) THEN Propagate(o)
                    ELSE IF o.b
                    THEN Call(c, [g EXCEPT !.pc = "loop_called"],
                              Frame(f.level + 1, s_m, s_n, o.ab, o.bb, o.cb, f.skip))
                    ELSE SetTop(c, g)
                      : o \in _determine_d_plus(f.level, x_i, potential_label, s_n,
                                                f.aa, f.ba, f.ca)}
               : at \in delivered(f.generated_labels)}

\* mutant: the loop is left with one label of the sample still to test
sequential_search_exhausted_early(c) ==
    IF AtPc(c, "loop") /\ Top(c).todo <= 1 THEN {Return(c, Top(c).res)} ELSE {}

\* line 122
sequential_search_exhausted(c) ==
    IF AtPc(c, "loop") /\ Top(c).todo = 0 THEN {Return(c, Top(c).res)} ELSE {}

(***************************************************************************)
(* search_algorithm.py: parallel_search, the same machine of frames run by  *)
(* the task builder; flag is is_finished.is_set() at the step.              *)
(***************************************************************************)
\* mutant: the subtrees become tasks one level further down
SplitLevel_one_below == search.height \div 2 + 2

\* the level at which the subtrees become tasks
SplitLevel == search.height \div 2 + 1

\* lines 158-160 without the put: the call returns None
parallel_search_enqueued(c) == Return(c, <<>>)

\* lines 162-178: the free-direction label, its test and the flag
parallel_search_closure(c, flag) ==
    IF ~(AtPc(c, "start") /\ Top(c).level # SplitLevel) THEN {}
    ELSE LET f == Top(c)
             key == eps_for_this_level(f.level)
             x_i == x_i_of(f.level)
             labels == _break_labels(values(f.s_m))
             span_of_labels == span(search.base_ring, {labels[i].c : i \in DOMAIN labels},
                                    Sum(search.parameters))
             inside == InLexOrder(search.base_ring,
                            {v \in span_of_labels :
                                p_support(Vector(v, search.parameters)) \subseteq x_i})
             lab == _break_labels([i \in DOMAIN inside |-> Vector(inside[i], search.parameters)])
             g == [f EXCEPT !.span_of_labels = span_of_labels]
         IN  {IF Raised(o) THEN Propagate(o)
              ELSE IF o.b /\ ~flag
              THEN Call(c, [g EXCEPT !.pc = "closure_called"],
                        Frame(f.level + 1, f.s_m, f.s_n, o.ab, o.bb, o.cb, f.skip))
              ELSE IF flag THEN Return(c, <<>>)
              ELSE SetTop(c, [g EXCEPT !.pc = "generate"])
                : o \in _determine_d_plus(f.level, x_i, List(lab), f.s_n, f.aa, f.ba, f.ca)}

\* mutant: the node is left when its first inner call has returned
parallel_search_resume_leaves(c) ==
    IF ~(c.status = "resume") THEN {} ELSE {Return(c, <<>>)}

\* the inner call has returned: nothing is read from it
parallel_search_resume(c) ==
    IF ~(c.status = "resume") THEN {}
    ELSE LET f == Top(c)
         IN  {SetTop(c, [f EXCEPT !.pc = IF f.pc = "closure_called"
                                         THEN "generate" ELSE "loop"])}

\* lines 180-181
parallel_search_sample(c) ==
    IF ~AtPc(c, "generate") THEN {}
    ELSE LET f == Top(c)
             x_i == x_i_of(f.level)
             population == generate_label(search.ac.participants, search.parameters, x_i,
                                          search.base_ring, f.span_of_labels)
         IN  {SetTop(c, [f EXCEPT !.generated_labels = population,
                                  !.todo = ((2 - f.skip) * Len(population)) \div 2,
                                  !.pc = "loop"])}

\* mutant: the loop does not look at the flag
parallel_search_loop_unchecked(c, flag) ==
    IF ~(AtPc(c, "loop") /\ Top(c).todo > 0) THEN {}
    ELSE LET f == Top(c)
             key == eps_for_this_level(f.level)
             x_i == x_i_of(f.level)
         IN  UNION {
               LET potential_label == f.generated_labels[at]
                   s_n == f.s_n \cup {f.level}
                   s_m == ExtendPath(f.s_m, key, potential_label)
                   g == [f EXCEPT !.s_n = s_n, !.s_m = s_m, !.todo = f.todo - 1,
                                  !.generated_labels =
                                        SubSeq(f.generated_labels, 1, at - 1)
                                        \o SubSeq(f.generated_labels, at + 1,
                                                  Len(f.generated_labels))]
               IN  {IF Raised(o) THEN Propagate(o)
                    ELSE IF o.b
                    THEN Call(c, [g EXCEPT !.pc = "loop_called"],
                              Frame(f.level + 1, s_m, s_n, o.ab, o.bb, o.cb, f.skip))
                    ELSE SetTop(c, g)
                      : o \in _determine_d_plus(f.level, x_i, potential_label, s_n,
                                                f.aa, f.ba, f.ca)}
               : at \in DOMAIN f.generated_labels}

\* lines 183-191: one turn of the loop
parallel_search_loop(c, flag) ==
    IF ~(AtPc(c, "loop") /\ Top(c).todo > 0) THEN {}
    ELSE LET f == Top(c)
             key == eps_for_this_level(f.level)
             x_i == x_i_of(f.level)
         IN  UNION {
               LET potential_label == f.generated_labels[at]
                   s_n == f.s_n \cup {f.level}
                   s_m == ExtendPath(f.s_m, key, potential_label)
                   g == [f EXCEPT !.s_n = s_n, !.s_m = s_m, !.todo = f.todo - 1,
                                  !.generated_labels =
                                        SubSeq(f.generated_labels, 1, at - 1)
                                        \o SubSeq(f.generated_labels, at + 1,
                                                  Len(f.generated_labels))]
               IN  {IF Raised(o) THEN Propagate(o)
                    ELSE IF o.b /\ ~flag
                    THEN Call(c, [g EXCEPT !.pc = "loop_called"],
                              Frame(f.level + 1, s_m, s_n, o.ab, o.bb, o.cb, f.skip))
                    ELSE IF flag THEN Return(c, <<>>)
                    ELSE SetTop(c, g)
                      : o \in _determine_d_plus(f.level, x_i, potential_label, s_n,
                                                f.aa, f.ba, f.ca)}
               : at \in DOMAIN f.generated_labels}

\* the loop is over: the call returns None
parallel_search_exhausted(c) ==
    IF AtPc(c, "loop") /\ Top(c).todo = 0 THEN {Return(c, <<>>)} ELSE {}

(***************************************************************************)
(* search_algorithm.py: the validator, and the algebra main needs for it.   *)
(***************************************************************************)
\* M.right_kernel_matrix(): the basis, in reduced row-echelon form, of the
\* vectors x of length ncols with M * x = 0
right_kernel_matrix(q, M, ncols) ==
    LET kernel == {x \in AllVectors(q, ncols) :
                        \A i \in DOMAIN M : Sum([j \in 1..ncols |-> M[i][j] * x[j]]) % q = 0}
        pivots == {FirstNonzero(x) : x \in kernel \ {Zero(ncols)}}
        ps == sorted(pivots)
    IN  [i \in DOMAIN ps |->
            CHOOSE x \in kernel : /\ FirstNonzero(x) = ps[i]
                                  /\ x[ps[i]] = 1
                                  /\ \A h \in pivots \ {ps[i]} : x[h] = 0]

\* the linear combinations of the columns cols (counted from 0) of M
ColumnSpace(q, M, cols) ==
    {[i \in DOMAIN M |-> Sum([j \in DOMAIN cols |-> co[j] * M[i][cols[j] + 1]]) % q]
        : co \in [DOMAIN cols -> 0..(q - 1)]}

\* create_submatrix: the columns of G[x], counted from 0
create_submatrix_cols(x) ==
    Concat([i \in DOMAIN search.parameters |->
                IF i \in x
                THEN [h \in 1..search.parameters[i] |->
                        Sum(SubSeq(search.parameters, 1, i - 1)) + h - 1]
                ELSE <<>>])

\* mutant: a unit vector has to be one of the columns themselves
V1_of_columns_only(q, possible_matrix, ncols, unit_vectors, x) ==
    LET cols == create_submatrix_cols(x)
    IN  IF \E j \in DOMAIN cols : cols[j] >= ncols THEN "IndexError"
        ELSE IF \E u \in DOMAIN unit_vectors : \A j \in DOMAIN cols :
                    unit_vectors[u] #
                        [i \in DOMAIN possible_matrix |-> possible_matrix[i][cols[j] + 1]]
        THEN "fails" ELSE "holds"

\* what one set x does to the validator: "IndexError" when matrix_from_columns
\* is given a column the matrix lacks, else whether its condition fails
V1(q, possible_matrix, ncols, unit_vectors, x) ==
    LET cols == create_submatrix_cols(x)
    IN  IF \E j \in DOMAIN cols : cols[j] >= ncols THEN "IndexError"
        ELSE IF \E u \in DOMAIN unit_vectors :
                    unit_vectors[u] \notin ColumnSpace(q, possible_matrix, cols)
        THEN "fails" ELSE "holds"

V2(q, possible_matrix, ncols, lin_comb_of_units, x) ==
    LET cols == create_submatrix_cols(x)
    IN  IF \E j \in DOMAIN cols : cols[j] >= ncols THEN "IndexError"
        ELSE IF ColumnSpace(q, possible_matrix, cols) \cap lin_comb_of_units # {}
        THEN "fails" ELSE "holds"

\* the first index of seq whose value is not "holds", 0 if none
FirstNot(seq) ==
    IF \A i \in DOMAIN seq : seq[i] = "holds" THEN 0
    ELSE CHOOSE i \in DOMAIN seq : seq[i] # "holds" /\ \A h \in 1..(i - 1) : seq[h] = "holds"

\* SearchAlgorithm.is_valid_gen_vec_constr: the tuple (bool, str) returned, as
\* [tuple |-> t] with the message cut to its first word, or the exception raised
is_valid_gen_vec_constr(possible_matrix) ==
    LET q == search.base_ring
        nrows == Len(possible_matrix)
        ncols == IF nrows = 0 THEN 0 ELSE Len(possible_matrix[1])
        units == [j \in 1..search.k |-> jth_unit_vector(j, nrows)]
        unit_vectors == [j \in 1..search.k |-> units[j].vector]
        lin_comb_of_units ==
            {v \in AllVectors(q, nrows) : v # Zero(nrows) /\ \A i \in (search.k + 1)..nrows : v[i] = 0}
        v1 == [i \in DOMAIN search.ac.gamma |->
                    V1(q, possible_matrix, ncols, unit_vectors, search.ac.gamma[i])]
        v2 == [i \in DOMAIN search.ac.delta |->
                    V2(q, possible_matrix, ncols, lin_comb_of_units, search.ac.delta[i])]
    IN  IF \E j \in 1..search.k : Raised(units[j]) THEN Raise("ValueError")
        ELSE IF FirstNot(v1) # 0
        THEN IF v1[FirstNot(v1)] = "fails" THEN [tuple |-> <<FALSE, "V1">>] ELSE Raise("IndexError")
        ELSE IF FirstNot(v2) # 0
        THEN IF v2[FirstNot(v2)] = "fails" THEN [tuple |-> <<FALSE, "V2">>] ELSE Raise("IndexError")
        ELSE [tuple |-> <<TRUE, "">>]

\* the truth value Python gives a tuple in `if`: whether it has elements
bool(tuple) == Len(tuple) # 0

\* submit_tasks, lines 105-111: the state of the root of the search tree
RootFrame(skip) ==
    LET ac == search.ac
        d_comp == [i \in DOMAIN ac.delta_max |-> ac.participants \ ac.delta_max[i]]
        id_matrix_sizes == [j \in DOMAIN d_comp |->
                                Sum([m \in 1..Len(sorted(d_comp[j])) |->
                                        search.parameters[sorted(d_comp[j])[m]]])]
    IN  Frame(1, <<>>, {},
              [j \in DOMAIN d_comp |-> ZeroMatrix(id_matrix_sizes[j], search.k)],
              [j \in DOMAIN d_comp |-> identity(id_matrix_sizes[j])],
              <<>>, skip)

(***************************************************************************)
(* The access-structure specification: one constructor call on a mapping   *)
(* of letter sets, then dual() chained on the result.                      *)
(***************************************************************************)
Letters(n) == {ascii_lowercase[i] : i \in 1..n}

RECURSIVE SeqsUpTo(_, _)
SeqsUpTo(S, m) ==
    IF m = 0 THEN {<<>>}
    ELSE LET shorter == SeqsUpTo(S, m - 1)
         IN  shorter \cup {Append(s, x) : s \in {t \in shorter : Len(t) = m - 1}, x \in S}

\* the place of a set of letters in the power-set order
Rank(ls) == LET F[S \in SUBSET ls] ==
                    IF S = {} THEN 0
                    ELSE LET c == CHOOSE c \in S : TRUE
                         IN  Pow2(LetterToParticipant(c) - 1) + F[S \ {c}]
            IN  F[ls]

\* the constructor calls of the model: n participants and a mapping 1..m -> sets
\* of the participants' letters (any sets: repeated, nested, empty), the sets
\* listed in power-set order
Args ==
    {[n |-> n, gamma_min |-> g, create_dual |-> cd] :
        n \in 0..MaxN, g \in SeqsUpTo(SUBSET Letters(MaxN), MaxSets), cd \in BOOLEAN}

ArgsOverParticipants ==
    {a \in Args :
        /\ \A i \in DOMAIN a.gamma_min : a.gamma_min[i] \subseteq Letters(a.n)
        /\ \A i, j \in DOMAIN a.gamma_min :
            i < j => Rank(a.gamma_min[i]) <= Rank(a.gamma_min[j])}

\* no search is set up
NoSearch == [height |-> 0]

\* random.seed(None): the generator starts from a state nobody knows, and a
\* sample may come out in any order
unseeded == [seeded |-> FALSE]

NoRun == [stack |-> <<>>, status |-> "none", value |-> <<>>, exc |-> ""]

\* linear-construction.py is not running
NoProcesses ==
    /\ args = [processors |-> 0]
    /\ task_queue = <<>>
    /\ done_queue = <<>>
    /\ is_finished = FALSE
    /\ result = <<>>
    /\ builder = [pc |-> "none", call |-> NoRun]
    /\ workers = <<>>
    /\ monitor = "none"
    /\ main = [pc |-> "none", next |-> 0, gen_vec_matrix |-> <<>>, output |-> "", exc |-> ""]

\* nothing of code_description.py is called on its own
NoCall ==
    /\ given = [q |-> 0]
    /\ outcome = [function |-> "none"]

InitAC ==
    /\ arg \in ArgsOverParticipants
    /\ structs = <<>>
    /\ pool = {}
    /\ search = NoSearch
    /\ run = NoRun
    /\ random = unseeded
    /\ NoProcesses
    /\ NoCall

Construct ==
    /\ structs = <<>>
    /\ \E o \in __init__(arg.n, arg.gamma_min, arg.create_dual) :
        /\ structs' = <<o.ac>>
        /\ pool' = o.temp
    /\ UNCHANGED <<arg, cdVars, seqVars, parVars>>

Dual ==
    /\ Len(structs) \in {1, 2}      \* AC.dual(), then AC.dual().dual()
    /\ \E o \in dual(structs[Len(structs)]) :
        /\ structs' = Append(structs, o.ac)
        /\ pool' = o.temp
    /\ UNCHANGED <<arg, cdVars, seqVars, parVars>>

NextAC == Construct \/ Dual

SpecAC == InitAC /\ [][NextAC]_vars

(***************************************************************************)
(* The sequential-search specification: linear-construction.py sets up the  *)
(* search for one command line, and sequential_search runs from the root.   *)
(***************************************************************************)
\* AccessStructure.from_iterable on the minimal sets given as sets of letters
from_iterable(n, iterable, create_dual) == __init__(n, iterable, create_dual)

\* SearchAlgorithm.__init__
SearchAlgorithm(ac, k, base_ring, eps, parameters, height) ==
    [ac |-> ac, k |-> k, base_ring |-> base_ring, eps |-> eps,
     parameters |-> parameters, height |-> height]

\* a command line: participants, minimal, --parameters, --order, -k, --dual
\* and --skip, which counts halves
CommandLine(n, minimal, parameters, order, k, d, skip) ==
    [participants |-> n, minimal |-> minimal, parameters |-> parameters,
     order |-> order, k |-> k, dual |-> d, skip |-> skip]

\* --skip 0.0 and --skip 0.5
Skips == {0, 1}

\* the command lines studied
CommandLines ==
    {CommandLine(cl[1], cl[2], cl[3], cl[4], cl[5], FALSE, skip) :
        cl \in {<<2, <<{"a", "b"}>>, <<1, 1>>, 2, 1>>,
                <<2, <<{"a", "b"}>>, <<1, 1>>, 2, 2>>,
                <<2, <<{"a"}, {"b"}>>, <<1, 1>>, 2, 1>>,
                <<2, <<{"a"}>>, <<1, 1>>, 2, 1>>,
                <<2, <<{"a"}, {"a"}>>, <<1, 1>>, 2, 1>>,
                <<3, <<{"a", "b"}, {"b", "c"}>>, <<1, 1, 1>>, 2, 1>>,
                <<3, <<{"b"}, {"b", "c"}>>, <<1, 1, 1>>, 2, 2>>,
                <<3, <<{"a", "b"}, {"a", "c"}, {"b", "c"}>>, <<1, 1, 1>>, 2, 1>>},
        skip \in Skips}

\* main, lines 218-239: the search objects a command line can give
Setups(cl) ==
    {LET r == Len(o.ac.gamma_min)
     IN  [ac |-> o.ac, temp |-> o.temp,
          search |-> SearchAlgorithm(o.ac, cl.k, cl.order, epsilon(r, cl.k),
                                     cl.parameters, r * cl.k)]
        : o \in from_iterable(cl.participants, cl.minimal, cl.dual)}

InitSeq ==
    \E cl \in CommandLines :
        \E o \in Setups(cl) :
            /\ arg = [n |-> cl.participants, gamma_min |-> cl.minimal,
                      create_dual |-> cl.dual]
            /\ structs = <<o.ac>>
            /\ pool = o.temp
            /\ search = o.search
            /\ run = Running(<<RootFrame(cl.skip)>>)
            /\ random = unseeded
            /\ NoProcesses
            /\ NoCall

SeqLeaf ==
    /\ \E c \in sequential_search_leaf(run) : run' = c
    /\ UNCHANGED <<acVars, cdVars, search, random, parVars>>

\* the draws the closure test of the innermost call makes: _d_plus samples
\* all the scalar combinations when it tries Lemma 5.11 (line 326)
_d_plus_draws(c) ==
    LET f == Top(c)
    IN  IF f.ca # <<>> /\ f.s_n # {}
           /\ SumSet(f.s_n) = (Max(f.s_n) * (Max(f.s_n) + 1)) \div 2
        THEN Power(search.base_ring, Cardinality(f.s_n)) ELSE 0

SeqClosure ==
    /\ \E c \in sequential_search_closure(run) : run' = c
    /\ random' = IF random.seeded /\ run'.status # "raised"
                 THEN [random EXCEPT !.state = getstate(_d_plus_draws(run), @)]
                 ELSE random
    /\ UNCHANGED <<acVars, cdVars, search, parVars>>

SeqResume ==
    /\ \E c \in sequential_search_resume(run) : run' = c
    /\ UNCHANGED <<acVars, cdVars, search, random, parVars>>

SeqSample ==
    /\ \E c \in sequential_search_sample(run) : run' = c
    /\ random' = IF random.seeded
                 THEN [random EXCEPT !.state = getstate(Top(run').todo, @)]
                 ELSE random
    /\ UNCHANGED <<acVars, cdVars, search, parVars>>

SeqLoop ==
    /\ \E c \in sequential_search_loop(run) : run' = c
    /\ UNCHANGED <<acVars, cdVars, search, random, parVars>>

SeqExhausted ==
    /\ \E c \in sequential_search_exhausted(run) : run' = c
    /\ UNCHANGED <<acVars, cdVars, search, random, parVars>>

NextSeq == SeqLeaf \/ SeqClosure \/ SeqResume \/ SeqSample \/ SeqLoop \/ SeqExhausted

SpecSeq == InitSeq /\ [][NextSeq]_vars

\* the same search after random.seed(args.seed) with a seed given: the
\* generator starts from a known state
InitSeeded ==
    \E cl \in CommandLines :
        \E o \in Setups(cl) :
          \E seed \in 0..(Period - 1) :
            /\ arg = [n |-> cl.participants, gamma_min |-> cl.minimal,
                      create_dual |-> cl.dual]
            /\ structs = <<o.ac>>
            /\ pool = o.temp
            /\ search = o.search
            /\ run = Running(<<RootFrame(cl.skip)>>)
            /\ random = [seeded |-> TRUE, state |-> seed]
            /\ NoProcesses
            /\ NoCall

SpecSeeded == InitSeeded /\ [][NextSeq]_vars

\* the command lines over two participants
InitSeqFair == InitSeq /\ arg.n = 2

\* the interpreter runs the one thread of the search until the call is over
SpecSeqFair == InitSeqFair /\ [][NextSeq]_vars /\ WF_vars(NextSeq)

(***************************************************************************)
(* The run of linear-construction.py: the task builder, the workers, the    *)
(* monitor thread and the parent process, over the two queues, the event    *)
(* and the shared result list.                                              *)
(***************************************************************************)
done_queue_maxsize == 100

\* the items of the queues
Task(f) == [kind |-> "task", level |-> f.level, s_m |-> f.s_m, s_n |-> f.s_n,
            aa |-> f.aa, ba |-> f.ba, ca |-> f.ca, skip |-> f.skip]

DONE == [kind |-> "DONE"]

Res(res) == [kind |-> "res", value |-> res]

STOP == [kind |-> "STOP"]

\* the command lines run in parallel
ParCommandLines ==
    {CommandLine(2, <<{"a", "b"}>>, <<1, 1>>, 2, 1, FALSE, 0),
     CommandLine(2, <<{"a", "b"}>>, <<1, 1>>, 2, 1, FALSE, 1),
     CommandLine(2, <<{"a", "b"}>>, <<1, 1>>, 2, 2, FALSE, 0),
     CommandLine(2, <<{"a", "b"}>>, <<1, 1>>, 2, 4, FALSE, 0),
     CommandLine(2, <<{"a"}, {"b"}>>, <<1, 1>>, 2, 1, FALSE, 0),
     CommandLine(2, <<{"a"}>>, <<1, 1>>, 2, 1, FALSE, 0),
     CommandLine(2, <<{"a"}>>, <<1, 1>>, 2, 1, FALSE, 1),
     CommandLine(2, <<{"a"}>>, <<2, 1>>, 2, 2, FALSE, 1),
     CommandLine(2, <<{"a"}, {"b"}>>, <<1, 1>>, 3, 1, FALSE, 0)}

\* main, lines 218-262: the objects are built and every process is started
InitPar ==
    \E cl \in ParCommandLines :
      \E processors \in 1..MaxProcessors, queuesize \in 1..MaxQueueSize :
        \E o \in Setups(cl) :
            /\ arg = [n |-> cl.participants, gamma_min |-> cl.minimal,
                      create_dual |-> cl.dual]
            /\ structs = <<o.ac>>
            /\ pool = o.temp
            /\ search = o.search
            /\ run = NoRun
            /\ random = unseeded
            /\ args = [participants |-> cl.participants, minimal |-> cl.minimal,
                       parameters |-> cl.parameters, order |-> cl.order, k |-> cl.k,
                       dual |-> cl.dual, skip |-> cl.skip, processors |-> processors,
                       queuesize |-> queuesize]
            /\ task_queue = <<>>
            /\ done_queue = <<>>
            /\ is_finished = FALSE
            /\ result = <<>>
            /\ builder = [pc |-> "search", call |-> Running(<<RootFrame(cl.skip)>>)]
            /\ workers = [w \in 1..processors |-> [pc |-> "while", call |-> NoRun]]
            /\ monitor = "while"
            /\ main = [pc |-> "wait", next |-> 0, gen_vec_matrix |-> <<>>,
                       output |-> "", exc |-> ""]
            /\ NoCall

unchangedByBuilder == <<acVars, cdVars, seqVars, args, done_queue, is_finished, result, workers, monitor, main>>

\* parallel_search, lines 158-160: task_queue.put, which waits for room
BuilderEnqueue ==
    /\ builder.pc = "search"
    /\ AtPc(builder.call, "start")
    /\ Top(builder.call).level = SplitLevel
    /\ Len(task_queue) < args.queuesize
    /\ task_queue' = Append(task_queue, Task(Top(builder.call)))
    /\ builder' = [builder EXCEPT !.call = parallel_search_enqueued(builder.call)]
    /\ UNCHANGED unchangedByBuilder

\* parallel_search between two puts: a step at a tree node
BuilderSearch ==
    /\ builder.pc = "search"
    /\ \E c \in parallel_search_closure(builder.call, is_finished)
                \cup parallel_search_resume(builder.call)
                \cup parallel_search_sample(builder.call)
                \cup parallel_search_loop(builder.call, is_finished)
                \cup parallel_search_exhausted(builder.call) :
          builder' = [builder EXCEPT !.call = c]
    /\ UNCHANGED <<task_queue, unchangedByBuilder>>

\* mutant: the sentinel is put and submit_tasks goes on
BuilderDone_and_goes_on ==
    /\ builder.pc = "search"
    /\ builder.call.status = "returned"
    /\ Len(task_queue) < args.queuesize
    /\ task_queue' = Append(task_queue, DONE)
    /\ UNCHANGED <<builder, unchangedByBuilder>>

\* submit_tasks, line 114
BuilderDone ==
    /\ builder.pc = "search"
    /\ builder.call.status = "returned"
    /\ Len(task_queue) < args.queuesize
    /\ task_queue' = Append(task_queue, DONE)
    /\ builder' = [builder EXCEPT !.pc = "exit"]
    /\ UNCHANGED unchangedByBuilder

\* an exception leaves submit_tasks: the process ends
BuilderRaises ==
    /\ builder.pc = "search"
    /\ builder.call.status = "raised"
    /\ builder' = [builder EXCEPT !.pc = "dead"]
    /\ UNCHANGED <<task_queue, unchangedByBuilder>>

unchangedByWorker == <<acVars, cdVars, seqVars, args, is_finished, result, builder, monitor, main>>

\* process_tasks, line 78: the loop condition
WorkerWhile ==
    \E w \in DOMAIN workers :
        /\ workers[w].pc = "while"
        /\ workers' = [workers EXCEPT ![w].pc = IF is_finished THEN "put_stop" ELSE "get"]
        /\ UNCHANGED <<task_queue, done_queue, unchangedByWorker>>

\* process_tasks, lines 79-80 and 83-84: task_queue.get, which waits for an item
WorkerGet ==
    \E w \in DOMAIN workers :
        /\ workers[w].pc = "get"
        /\ task_queue # <<>>
        /\ task_queue' = Tail(task_queue)
        /\ LET params == Head(task_queue)
           IN  workers' = [workers EXCEPT ![w] =
                    IF params # DONE
                    THEN [pc |-> "search",
                          call |-> Running(<<Frame(params.level, params.s_m, params.s_n,
                                                   params.aa, params.ba, params.ca,
                                                   params.skip)>>)]
                    ELSE [pc |-> "put_stop", call |-> NoRun]]
        /\ UNCHANGED <<done_queue, unchangedByWorker>>

\* mutant: sequential_search looks at the flag at every tree node and returns
process_tasks_search_branch_check(call, flag) ==
    IF flag /\ call.status \in {"running", "resume"}
    THEN {[stack |-> <<>>, status |-> "returned", value |-> <<>>, exc |-> ""]}
    ELSE sequential_search_leaf(call) \cup sequential_search_closure(call)
         \cup sequential_search_resume(call) \cup sequential_search_sample(call)
         \cup sequential_search_loop(call) \cup sequential_search_exhausted(call)

\* the steps sequential_search can take in a worker; flag is
\* is_finished.is_set() at the step
process_tasks_search(call, flag) ==
    sequential_search_leaf(call) \cup sequential_search_closure(call)
    \cup sequential_search_resume(call) \cup sequential_search_sample(call)
    \cup sequential_search_loop(call) \cup sequential_search_exhausted(call)

\* process_tasks, line 81: sequential_search at one tree node
WorkerSearch ==
    \E w \in DOMAIN workers :
        /\ workers[w].pc = "search"
        /\ \E c \in process_tasks_search(workers[w].call, is_finished) :
              workers' = [workers EXCEPT ![w].call = c]
        /\ UNCHANGED <<task_queue, done_queue, unchangedByWorker>>

\* process_tasks, line 82: done_queue.put(res)
WorkerPut ==
    \E w \in DOMAIN workers :
        /\ workers[w].pc = "search"
        /\ workers[w].call.status = "returned"
        /\ Len(done_queue) < done_queue_maxsize
        /\ done_queue' = Append(done_queue, Res(workers[w].call.value))
        /\ workers' = [workers EXCEPT ![w] = [pc |-> "while", call |-> NoRun]]
        /\ UNCHANGED <<task_queue, unchangedByWorker>>

\* an exception leaves process_tasks: the process ends and puts nothing
WorkerRaises ==
    \E w \in DOMAIN workers :
        /\ workers[w].pc = "search"
        /\ workers[w].call.status = "raised"
        /\ workers' = [workers EXCEPT ![w].pc = "dead"]
        /\ UNCHANGED <<task_queue, done_queue, unchangedByWorker>>

\* process_tasks, line 85
WorkerStop ==
    \E w \in DOMAIN workers :
        /\ workers[w].pc = "put_stop"
        /\ Len(done_queue) < done_queue_maxsize
        /\ done_queue' = Append(done_queue, STOP)
        /\ workers' = [workers EXCEPT ![w].pc = "exit"]
        /\ UNCHANGED <<task_queue, unchangedByWorker>>

unchangedByMonitor == <<acVars, cdVars, seqVars, args, task_queue, builder, workers, main>>

\* monitor_finished_tasks, line 145: the loop condition
MonitorWhile ==
    /\ monitor = "while"
    /\ monitor' = IF is_finished THEN "exit" ELSE "get"
    /\ UNCHANGED <<done_queue, is_finished, result, unchangedByMonitor>>

\* mutant: the monitor goes on reading after a solution
MonitorGet_reads_on ==
    /\ monitor = "get"
    /\ done_queue # <<>>
    /\ done_queue' = Tail(done_queue)
    /\ LET solution == Head(done_queue)
       IN  IF solution = STOP
           THEN is_finished' = TRUE /\ UNCHANGED result
           ELSE IF solution.value # <<>>
           THEN result' = result \o solution.value /\ UNCHANGED is_finished
           ELSE UNCHANGED <<is_finished, result>>
    /\ monitor' = "while"
    /\ UNCHANGED unchangedByMonitor

\* monitor_finished_tasks, lines 146-151
MonitorGet ==
    /\ monitor = "get"
    /\ done_queue # <<>>
    /\ done_queue' = Tail(done_queue)
    /\ LET solution == Head(done_queue)
       IN  IF solution = STOP
           THEN is_finished' = TRUE /\ UNCHANGED result
           ELSE IF solution.value # <<>>
           THEN result' = result \o solution.value /\ is_finished' = TRUE
           ELSE UNCHANGED <<is_finished, result>>
    /\ monitor' = "while"
    /\ UNCHANGED unchangedByMonitor

unchangedByMain == <<acVars, cdVars, seqVars, args, task_queue, done_queue, is_finished, result, monitor>>

\* terminate() on a process: it ends wherever it is, and its call with it
terminate(process) ==
    IF process.pc \in {"exit", "dead"} THEN process
    ELSE [pc |-> "terminated", call |-> NoRun]

\* main, lines 264-268: is_finished.wait(), then the task builder is terminated
MainWait ==
    /\ main.pc = "wait"
    /\ is_finished
    /\ builder' = terminate(builder)
    /\ main' = [main EXCEPT !.pc = "terminate", !.next = 1]
    /\ UNCHANGED <<workers, unchangedByMain>>

\* main, lines 269-270: the workers are terminated one after the other
MainTerminate ==
    /\ main.pc = "terminate"
    /\ main.next <= args.processors
    /\ workers' = [workers EXCEPT ![main.next] = terminate(@)]
    /\ main' = [main EXCEPT !.next = @ + 1]
    /\ UNCHANGED <<builder, unchangedByMain>>

\* main, lines 271-273: the processes and the monitor thread are joined
MainJoin ==
    /\ main.pc = "terminate"
    /\ main.next > args.processors
    /\ monitor = "exit"
    /\ main' = [main EXCEPT !.pc = "report"]
    /\ UNCHANGED <<builder, workers, unchangedByMain>>

\* main, lines 276-277: the rows e + v.c, e the unit vector of the row's level
generator_matrix ==
    LET rows == IF Len(result) < Len(search.eps) THEN Len(result) ELSE Len(search.eps)
    IN  [i \in 1..rows |-> jth_unit_vector(search.eps[i][2], search.k).vector \o result[i].c]

\* main, lines 278-279: parity_check_matrix[:, 2:]
gen_vec_matrix ==
    LET parity_check_matrix ==
            right_kernel_matrix(search.base_ring, generator_matrix,
                                search.k + Sum(search.parameters))
    IN  [i \in DOMAIN parity_check_matrix |->
            SubSeq(parity_check_matrix[i], 3, Len(parity_check_matrix[i]))]

\* main, lines 275-309: what is written to the output
MainReport ==
    /\ main.pc = "report"
    /\ IF result # <<>>
       THEN LET verdict == is_valid_gen_vec_constr(gen_vec_matrix)
            IN  IF Raised(verdict)
                THEN main' = [main EXCEPT !.pc = "raised", !.exc = verdict.exc,
                                          !.gen_vec_matrix = gen_vec_matrix]
                ELSE main' = [main EXCEPT !.pc = "done",
                                !.gen_vec_matrix = gen_vec_matrix,
                                !.output = IF bool(verdict.tuple) THEN "The generator matrix"
                                           ELSE "The candidate vectors are not valid."]
       ELSE main' = [main EXCEPT !.pc = "done", !.output = "There does not exists"]
    /\ UNCHANGED <<builder, workers, unchangedByMain>>

NextPar ==
    \/ BuilderEnqueue
    \/ BuilderSearch
    \/ BuilderDone
    \/ BuilderRaises
    \/ WorkerWhile
    \/ WorkerGet
    \/ WorkerSearch
    \/ WorkerPut
    \/ WorkerRaises
    \/ WorkerStop
    \/ MonitorWhile
    \/ MonitorGet
    \/ MainWait
    \/ MainTerminate
    \/ MainJoin
    \/ MainReport

SpecPar == InitPar /\ [][NextPar]_vars

\* the steps of the task builder process outside parallel_search's nodes
TaskBuilderProcess == BuilderEnqueue \/ BuilderDone \/ BuilderRaises

\* BuilderSearch can take a step: parallel_search is at a node or has a call
\* to resume
BuilderSearchEnabled ==
    /\ builder.pc = "search"
    /\ builder.call.status \in {"running", "resume"}
    /\ ~(AtPc(builder.call, "start") /\ Top(builder.call).level = SplitLevel)

\* the steps of worker process w outside sequential_search
WorkerProcess(w) ==
    /\ w \in DOMAIN workers
    /\ (WorkerWhile \/ WorkerGet \/ WorkerPut \/ WorkerRaises \/ WorkerStop)
    /\ workers'[w] # workers[w]

\* WorkerSearch can take a step for worker w
WorkerSearchEnabled(w) ==
    /\ w \in DOMAIN workers
    /\ workers[w].pc = "search"
    /\ workers[w].call.status \in {"running", "resume"}

\* the step is one of BuilderSearch: parallel_search has moved and has put
\* nothing
BuilderSearches ==
    /\ builder.pc = "search"
    /\ builder'.pc = "search"
    /\ builder'.call # builder.call
    /\ task_queue' = task_queue

\* the step is one of WorkerSearch by worker w: its sequential_search has moved
WorkerSearches(w) ==
    /\ w \in DOMAIN workers
    /\ workers[w].pc = "search"
    /\ workers'[w].pc = "search"
    /\ workers'[w].call # workers[w].call

\* the steps of the monitor thread
MonitorThread == MonitorWhile \/ MonitorGet

\* the steps of the parent process before its report
MainProcess == MainWait \/ MainTerminate \/ MainJoin

\* the step is MainReport, which is enabled when main.pc = "report"
MainReports == main.pc = "report" /\ main'.pc # "report"

\* the operating system runs every process and thread that can take a step;
\* a get from an empty queue and a put to a full one cannot. The weak
\* fairness of the search steps is written out, with the condition under
\* which the step is enabled as a state predicate; so is that of the report
SpecParFair ==
    /\ InitPar
    /\ [][NextPar]_vars
    /\ WF_vars(TaskBuilderProcess)
    /\ ([]<>~BuilderSearchEnabled \/ []<><<BuilderSearches>>_vars)
    /\ \A w \in 1..MaxProcessors :
            /\ WF_vars(WorkerProcess(w))
            /\ ([]<>~WorkerSearchEnabled(w) \/ []<><<WorkerSearches(w)>>_vars)
    /\ WF_vars(MonitorThread)
    /\ WF_vars(MainProcess)
    /\ ([]<>(main.pc # "report") \/ []<><<MainReports>>_vars)

(***************************************************************************)
(* code_description.py called on its own: p_support, projection and         *)
(* generate_label on a block vector v over GF(q) with partition pi, a set x  *)
(* of participants and a linear span.                                       *)
(***************************************************************************)
\* the prime fields studied
Orders == {2, 3}

\* the share sizes studied
Partitions == {<<1>>, <<2>>, <<1, 1>>, <<1, 2>>, <<2, 1>>, <<1, 1, 1>>}

\* the values of lin_span: the empty list, span([w], GF(q)) for every w, and
\* the whole space
Spans(q, m) == {{}} \cup {span(q, {w}, m) : w \in AllVectors(q, m)} \cup {AllVectors(q, m)}

\* the largest r, k and dim studied
MaxDim == 3

\* a block vector, a set of participants and a span
GivenVector ==
    \E q \in Orders : \E pi \in Partitions :
      \E c \in AllVectors(q, Sum(pi)) : \E x \in SUBSET (1..Len(pi)) :
        \E lin_span \in Spans(q, Sum(pi)) :
            given = [q |-> q, pi |-> pi, v |-> Vector(c, pi), x |-> x,
                     lin_span |-> lin_span]

\* the integers r, k, j and dim, non-positive ones and a j beyond dim included
GivenIntegers ==
    \E r, k \in (0 - 1)..MaxDim : \E dim \in 0..MaxDim :
      \E j \in (0 - MaxDim - 1)..(MaxDim + 1) :
        given = [q |-> 2, r |-> r, k |-> k, j |-> j, dim |-> dim]

InitCD ==
    /\ (GivenVector \/ GivenIntegers)
    /\ outcome = [function |-> "none"]
    /\ arg = [n |-> 0, gamma_min |-> <<>>, create_dual |-> FALSE]
    /\ structs = <<>>
    /\ pool = {}
    /\ search = NoSearch
    /\ run = NoRun
    /\ random = unseeded
    /\ NoProcesses

\* p_support(v)
PSupport ==
    /\ "v" \in DOMAIN given
    /\ outcome.function = "none"
    /\ outcome' = [function |-> "p_support", value |-> p_support(given.v)]
    /\ UNCHANGED <<given, acVars, seqVars, parVars>>

\* projection(v, x, pi)
Projection ==
    /\ "v" \in DOMAIN given
    /\ outcome.function = "none"
    /\ outcome' = [function |-> "projection",
                   value |-> projection(given.v, given.x, given.pi)]
    /\ UNCHANGED <<given, acVars, seqVars, parVars>>

\* list(generate_label(participants, pi, x_i, base_ring, lin_span))
GenerateLabel ==
    /\ "v" \in DOMAIN given
    /\ outcome.function = "none"
    /\ outcome' = [function |-> "generate_label",
                   value |-> generate_label(1..Len(given.pi), given.pi, given.x,
                                            given.q, given.lin_span)]
    /\ UNCHANGED <<given, acVars, seqVars, parVars>>

\* epsilon(r, k)
Epsilon ==
    /\ "r" \in DOMAIN given
    /\ outcome.function = "none"
    /\ outcome' = [function |-> "epsilon", value |-> epsilon(given.r, given.k)]
    /\ UNCHANGED <<given, acVars, seqVars, parVars>>

\* jth_unit_vector(j, dim, base_ring)
JthUnitVector ==
    /\ "j" \in DOMAIN given
    /\ outcome.function = "none"
    /\ outcome' = [function |-> "jth_unit_vector",
                   value |-> jth_unit_vector(given.j, given.dim)]
    /\ UNCHANGED <<given, acVars, seqVars, parVars>>

NextCD == PSupport \/ Projection \/ GenerateLabel \/ Epsilon \/ JthUnitVector

SpecCD == InitCD /\ [][NextCD]_vars

(***************************************************************************)
(* SearchAlgorithm.is_valid_gen_vec_constr called on its own: the search    *)
(* object of a command line and a matrix over its field.                    *)
(***************************************************************************)
\* the largest number of rows of a matrix studied
MaxRows == 2

\* the command lines whose validator is studied
ValidatorCommandLines == {cl \in CommandLines \cup ParCommandLines : cl.skip = 0}

\* a matrix with up to MaxRows rows and as many columns as the shares need,
\* or one column less
InitValidator ==
    \E cl \in ValidatorCommandLines :
      \E o \in Setups(cl) :
        \E nrows \in 0..MaxRows :
          \E ncols \in (Sum(cl.parameters) - 1)..Sum(cl.parameters) :
            \E possible_matrix \in [1..nrows -> AllVectors(cl.order, ncols)] :
                /\ arg = [n |-> cl.participants, gamma_min |-> cl.minimal,
                          create_dual |-> cl.dual]
                /\ structs = <<o.ac>>
                /\ pool = o.temp
                /\ search = o.search
                /\ run = NoRun
                /\ random = unseeded
                /\ NoProcesses
                /\ given = [q |-> cl.order, possible_matrix |-> possible_matrix]
                /\ outcome = [function |-> "none"]

\* search.is_valid_gen_vec_constr(possible_matrix)
IsValidGenVecConstr ==
    /\ "possible_matrix" \in DOMAIN given
    /\ outcome.function = "none"
    /\ outcome' = [function |-> "is_valid_gen_vec_constr",
                   value |-> is_valid_gen_vec_constr(given.possible_matrix)]
    /\ UNCHANGED <<given, acVars, seqVars, parVars>>

SpecValidator == InitValidator /\ [][IsValidGenVecConstr]_vars

(***************************************************************************)
(* The set X_i of a level, computed on its own for the search object of a   *)
(* command line, one with ten minimal sets among them.                      *)
(***************************************************************************)
\* linear-construction.py 4 a b c d ab ac ad bc bd cd --parameters 1,1,1,1
TenMinimalSets ==
    CommandLine(4, <<{"a"}, {"b"}, {"c"}, {"d"}, {"a", "b"}, {"a", "c"}, {"a", "d"},
                     {"b", "c"}, {"b", "d"}, {"c", "d"}>>, <<1, 1, 1, 1>>, 2, 1, FALSE, 0)

\* a search object and a level of its tree
InitLevel ==
    \E cl \in CommandLines \cup ParCommandLines \cup {TenMinimalSets} :
      \E o \in Setups(cl) :
        \E level \in 1..o.search.height :
            /\ arg = [n |-> cl.participants, gamma_min |-> cl.minimal,
                      create_dual |-> cl.dual]
            /\ structs = <<o.ac>>
            /\ pool = o.temp
            /\ search = o.search
            /\ run = NoRun
            /\ random = unseeded
            /\ NoProcesses
            /\ given = [q |-> cl.order, level |-> level]
            /\ outcome = [function |-> "none"]

\* lines 89-90 (and 170-171) at the level given
LevelSet ==
    /\ "level" \in DOMAIN given
    /\ outcome.function = "none"
    /\ outcome' = [function |-> "x_i", value |-> x_i_of(given.level)]
    /\ UNCHANGED <<given, acVars, seqVars, parVars>>

SpecLevel == InitLevel /\ [][LevelSet]_vars

(***************************************************************************)
(* The admissibility test called on its own at a node of level len(ca) + 1: *)
(* the search object of a command line, a list ca of candidates, a set s_n  *)
(* of levels above the node and a label.                                    *)
(***************************************************************************)
\* the largest number of candidates studied
MaxCandidates == 3

\* a search object, the candidates of the levels above a node, the levels
\* among them with a concrete label, and a label: a list or a Vector
InitDPlus ==
    \E cl \in {c \in CommandLines : c.skip = 0} :
      \E o \in Setups(cl) :
        \E len \in 0..MaxCandidates :
          \E c \in [1..len -> AllVectors(cl.order, Sum(cl.parameters))] :
            \E s_n \in SUBSET (1..len) :
              \E label \in {List(<<all_zero(cl.parameters)>>)}
                           \cup {Vector(v, cl.parameters) :
                                    v \in AllVectors(cl.order, Sum(cl.parameters))} :
                /\ len < o.search.height
                /\ isinstance_Vector(label) => len <= 1
                /\ arg = [n |-> cl.participants, gamma_min |-> cl.minimal,
                          create_dual |-> cl.dual]
                /\ structs = <<o.ac>>
                /\ pool = o.temp
                /\ search = o.search
                /\ run = NoRun
                /\ random = unseeded
                /\ NoProcesses
                /\ given = [q |-> cl.order, level |-> len + 1, label |-> label,
                            s_n |-> s_n,
                            ca |-> [m \in 1..len |-> Vector(c[m], cl.parameters)]]
                /\ outcome = [function |-> "none"]

\* self._determine_d_plus(level, x_i, label, s_n, aa, ba, ca) with the
\* matrices of the root
DeterminesDPlus ==
    /\ "label" \in DOMAIN given
    /\ outcome.function = "none"
    /\ outcome' = [function |-> "_d_plus",
                   value |-> _determine_d_plus(given.level, x_i_of(given.level),
                                               given.label, given.s_n,
                                               RootFrame(0).aa, RootFrame(0).ba,
                                               given.ca)]
    /\ UNCHANGED <<given, acVars, seqVars, parVars>>

SpecDPlus == InitDPlus /\ [][DeterminesDPlus]_vars

(***************************************************************************)
(* Properties of the access structure (checked under SpecAC).              *)
(***************************************************************************)
NoRepeat(seq) == \A i, j \in DOMAIN seq : i # j => seq[i] # seq[j]

MinimalOf(S) == {x \in S : ~\E y \in S : y \subseteq x /\ y # x}

MaximalOf(S) == {x \in S : ~\E y \in S : x \subseteq y /\ y # x}

\* the values of seq are exactly the sets of S, each listed once
ListsExactly(seq, S) == Range(seq) = S /\ NoRepeat(seq)

\* the mapping passed to the constructor holds distinct, pairwise incomparable sets
ArgIsAntichain ==
    \A i, j \in DOMAIN arg.gamma_min :
        i # j => ~(arg.gamma_min[i] \subseteq arg.gamma_min[j])

\* C5: in every constructed AccessStructure (from the constructor, with or
\* without create_dual, or from dual()) gamma and delta together list every
\* subset of the participants exactly once: their union is the full power set,
\* no subset is in both and none is listed twice.
C5_Partition ==
    \A k \in DOMAIN structs :
        LET a == structs[k]
        IN  /\ Range(a.gamma) \cup Range(a.delta) = SUBSET a.participants
            /\ Range(a.gamma) \cap Range(a.delta) = {}
            /\ NoRepeat(a.gamma \o a.delta)

\* C5 witness: a structure built with create_dual=True and its dual() chain,
\* each with qualified and forbidden sets.
C5_Witness ==
    /\ Len(structs) = 3
    /\ arg.create_dual
    /\ \A k \in DOMAIN structs : structs[k].gamma # <<>> /\ structs[k].delta # <<>>

\* C6: in every constructed AccessStructure gamma is upward-closed within the
\* participants and delta is downward-closed.
C6_Closed ==
    \A k \in DOMAIN structs :
        LET a == structs[k]
        IN  /\ \A x \in Range(a.gamma) : \A y \in SUBSET a.participants :
                    x \subseteq y => y \in Range(a.gamma)
            /\ \A x \in Range(a.delta) : \A y \in SUBSET x : y \in Range(a.delta)

\* C6 witness: a structure with a qualified set that is not the whole
\* participant set and a non-empty forbidden set, so both closures have work.
C6_Witness ==
    \E k \in DOMAIN structs :
        /\ \E x \in Range(structs[k].gamma) : x # structs[k].participants
        /\ \E x \in Range(structs[k].delta) : x # {}

\* the values of gamma_min are exactly the inclusion-minimal qualified sets
GammaMinExact(a) == ListsExactly(a.gamma_min, MinimalOf(Range(a.gamma)))

\* C7 as stated: whatever mapping was passed, the values of gamma_min are
\* exactly the inclusion-minimal elements of gamma, each once.
C7_AsStated == \A k \in DOMAIN structs : GammaMinExact(structs[k])

\* C7 amended: every value of gamma_min is qualified and every inclusion-minimal
\* qualified set is among the values; the values are exactly the minimal
\* qualified sets, each once, when the mapping passed holds distinct, pairwise
\* incomparable sets, when create_dual=True, and for every result of dual().
C7_GammaMin ==
    \A k \in DOMAIN structs :
        LET a == structs[k]
        IN  /\ Range(a.gamma_min) \subseteq Range(a.gamma)
            /\ MinimalOf(Range(a.gamma)) \subseteq Range(a.gamma_min)
            /\ (k > 1 \/ arg.create_dual \/ ArgIsAntichain) => GammaMinExact(a)

\* C7 witness: a constructor call on two incomparable sets, and its dual.
C7_Witness ==
    /\ Len(structs) >= 2
    /\ ~arg.create_dual
    /\ Len(arg.gamma_min) = 2
    /\ ArgIsAntichain

\* C8: delta_max as computed by _calculate_group lists exactly the
\* inclusion-maximal elements of delta, each once, and the loop ends with an
\* empty pool (also when delta is empty).
C8_DeltaMax ==
    /\ \A k \in DOMAIN structs :
        ListsExactly(structs[k].delta_max, MaximalOf(Range(structs[k].delta)))
    /\ pool = {}

\* C8 witness: a dual chain holding a structure whose maximal forbidden sets
\* have two different sizes (the loop commits in two rounds).
C8_Witness ==
    /\ \E k \in DOMAIN structs : \E x, y \in Range(structs[k].delta_max) :
            Cardinality(x) # Cardinality(y)
    /\ Len(structs) = 3

\* C9 as stated: AC.dual().dual() == AC for every mapping the constructor accepts.
C9_AsStated == Len(structs) = 3 => __eq__(structs[3], structs[1])

\* C9 amended: AC.dual().dual() == AC (and AC == AC.dual().dual()) whenever AC
\* was built from distinct, pairwise incomparable participant sets, or with
\* create_dual=True, or is itself a result of dual().
C9_Involutive ==
    Len(structs) = 3 =>
        ((arg.create_dual \/ ArgIsAntichain) =>
            __eq__(structs[3], structs[1]) /\ __eq__(structs[1], structs[3]))

\* C9 witness: the double dual of a structure with two minimal qualified sets.
C9_Witness ==
    /\ Len(structs) = 3
    /\ ArgIsAntichain
    /\ Len(structs[1].gamma_min) = 2
    /\ structs[2].gamma_min # structs[1].gamma_min

DualExample(create_dual) ==
    \A a \in __init__(4, <<{"a", "b"}, {"c", "d"}, {"b", "c"}>>, create_dual) :
        /\ a.ac.gamma_min = <<{1, 3}, {2, 3}, {2, 4}>>
        /\ Range(a.ac.delta_max) = {{1, 2}, {1, 4}, {3, 4}}

\* the objects a constructor call can build agree: they are equal, with the
\* same numbers of gamma_min and delta_max entries and the same sets
ObjectsAgree(objects) ==
    \A a \in objects :
        LET b == CHOOSE b \in objects : TRUE
        IN  /\ __eq__(a.ac, b.ac) /\ __eq__(b.ac, a.ac)
            /\ Len(a.ac.gamma_min) = Len(b.ac.gamma_min)
            /\ Range(a.ac.gamma_min) = Range(b.ac.gamma_min)
            /\ Len(a.ac.delta_max) = Len(b.ac.delta_max)
            /\ Range(a.ac.delta_max) = Range(b.ac.delta_max)

Reversed(g) == [i \in DOMAIN g |-> g[Len(g) + 1 - i]]

RECURSIVE Distinct(_)
\* the mapping with every repetition of a set left out
Distinct(g) ==
    IF g = <<>> THEN <<>>
    ELSE LET front == Distinct(SubSeq(g, 1, Len(g) - 1))
         IN  IF g[Len(g)] \in Range(front) THEN front ELSE Append(front, g[Len(g)])

\* sets of the same size stand in the order of their binary codes
InCodeOrder(sets) ==
    \A i, j \in DOMAIN sets :
        (i < j /\ Cardinality(sets[i]) = Cardinality(sets[j])) =>
            SumSet({Pow2(e) : e \in sets[i]}) < SumSet({Pow2(e) : e \in sets[j]})

\* the objects the structures of this run are also compared with: for the
\* object built without create_dual whose delta_max came out in code order,
\* the objects built from the same mapping under other keys, without its
\* repetitions, and over one participant more
Variants ==
    IF Len(structs) # 1 \/ arg.create_dual \/ ~InCodeOrder(structs[1].delta_max) THEN {}
    ELSE __init__(arg.n, Reversed(arg.gamma_min), FALSE) \cup
         __init__(arg.n, Distinct(arg.gamma_min), FALSE) \cup
         UNION {__init__(n, arg.gamma_min, FALSE) : n \in {arg.n + 1} \cap (0..MaxN)}

SameSets(a, b) ==
    /\ a.participants = b.participants
    /\ Range(a.gamma_min) = Range(b.gamma_min)
    /\ Range(a.delta_max) = Range(b.delta_max)

\* a property of every pair of objects compared: the structures of this run
\* (the object, its dual, its double dual) with one another and with the
\* variants
OfAllCompared(Law(_, _)) ==
    /\ \A i, j \in DOMAIN structs : Law(structs[i], structs[j])
    /\ \A i \in DOMAIN structs : \A o \in Variants : Law(structs[i], o.ac)

AsStated(a, b) == __eq__(a, b) <=> SameSets(a, b)

\* C12 as stated: two AccessStructures are equal exactly when they have the
\* same participants, the same set of gamma_min sets and the same set of
\* delta_max sets, however often a set is repeated in the input mapping.
C12_AsStated == OfAllCompared(AsStated)

Equality(a, b) ==
    /\ __eq__(a, b) <=> (SameSets(a, b) /\ Len(a.gamma_min) = Len(b.gamma_min))
    /\ __eq__(a, a)
    /\ __eq__(a, b) <=> __eq__(b, a)

\* C12: two AccessStructures are equal exactly when they have the same
\* participants, the same number of gamma_min entries, the same set of
\* gamma_min sets and the same set of delta_max sets, regardless of the index
\* keys under which the sets are stored; equality is reflexive and symmetric.
C12_Equality == OfAllCompared(Equality)

\* C12 witness: an object built from two different sets is compared with the
\* object built from the same sets under exchanged keys, and they are equal;
\* it is unequal to an object over more participants.
C12_Witness ==
    /\ Len(structs) = 1
    /\ Len(arg.gamma_min) = 2
    /\ arg.gamma_min[1] # arg.gamma_min[2]
    /\ arg.n < MaxN
    /\ ~arg.create_dual
    /\ InCodeOrder(structs[1].delta_max)
    /\ \A o \in __init__(arg.n, Reversed(arg.gamma_min), FALSE) :
            /\ o.ac.gamma_min # structs[1].gamma_min
            /\ __eq__(structs[1], o.ac)
    /\ \E o \in Variants : ~__eq__(structs[1], o.ac)

(***************************************************************************)
(* Both engines: the sequential search from the root state and the run of  *)
(* linear-construction.py.                                                  *)
(***************************************************************************)
InitSearch == InitSeq \/ InitPar

NextSearch == NextSeq \/ NextPar

SpecSearch == InitSearch /\ [][NextSearch]_vars

\* every call of sequential_search or parallel_search in progress
Calls == {run, builder.call} \cup {workers[w].call : w \in DOMAIN workers}

\* C13: at entry to every search node at level L the list ca holds exactly
\* L-1 vectors, in the sequential search, in the task builder's
\* parallel_search, in every worker and in every task on the queue; a
\* non-empty result of sequential_search started from the root state has
\* exactly height = r*k vectors.
C13_CandidatesPerLevel ==
    /\ \A c \in Calls : \A i \in DOMAIN c.stack :
            Len(c.stack[i].ca) = c.stack[i].level - 1
    /\ \A i \in DOMAIN task_queue :
            task_queue[i].kind = "task" => Len(task_queue[i].ca) = task_queue[i].level - 1
    /\ (run.status = "returned" /\ run.value # <<>>) => Len(run.value) = search.height

\* C13 witness: a worker that took a task of level 2 or more has entered a
\* node one level below the task's.
C13_Witness ==
    \E w \in DOMAIN workers :
        /\ workers[w].pc = "search"
        /\ Len(workers[w].call.stack) = 2
        /\ workers[w].call.stack[1].level >= 2
        /\ AtPc(workers[w].call, "start")
        /\ Top(workers[w].call).ca # <<>>

(***************************************************************************)
(* Properties of the sequential search (checked under SpecSeq).            *)
(***************************************************************************)
\* C4: sequential_search never ends in an exception: every admissibility
\* test returns a boolean verdict.
C4_NeverRaises == run.status # "raised"

\* C15: sequential search is depth-first, first-match: once a recursive call
\* has returned a non-empty list, every step hands that same list one call
\* further up, until the outermost call returns it; no ancestor tests another
\* label.
C15_FirstMatch ==
    [][(run.status = "resume" /\ run.value # <<>>) =>
            /\ run'.value = run.value
            /\ run'.stack = SubSeq(run.stack, 1, Len(run.stack) - 1)
            /\ run'.status = IF Len(run.stack) = 1 THEN "returned" ELSE "resume"]_vars

\* C15 witness: a non-empty list has come back to a node that still has
\* labels to test.
C15_Witness ==
    /\ run.status = "resume"
    /\ run.value # <<>>
    /\ Top(run).pc = "loop_called"
    /\ Top(run).todo > 0

\* the recursion is never deeper than height + 1 calls and no call is at a
\* level above height + 1
C14_DepthBound ==
    /\ Len(run.stack) <= search.height + 1
    /\ \A i \in DOMAIN run.stack : run.stack[i].level = i /\ i <= search.height + 1

\* the search ends: the outermost call returns or an exception leaves it
C14_Ends == <>(run.status \in {"returned", "raised"})

\* C14: sequential_search terminates for every finite instance: every call
\* eventually returns either a candidate list or the empty list.
C14_EventuallyReturns == <>(run.status = "returned")

(***************************************************************************)
(* Properties of the parallel run (checked under SpecPar).                 *)
(***************************************************************************)
\* a task the task builder enqueued is still waiting, being searched, lost with
\* its worker, or its result is still unread
SomeTaskUnfinished ==
    \/ \E i \in DOMAIN task_queue : task_queue[i].kind = "task"
    \/ \E w \in DOMAIN workers : workers[w].pc \in {"search", "dead"}
    \/ \E i \in DOMAIN done_queue : done_queue[i].kind = "res"

\* C1: when the flag is set with an empty result (exhaustion), every task the
\* task builder enqueued has been searched to completion and its empty result
\* has been read.
C1_ExhaustionOnlyWhenAllSearched ==
    (is_finished /\ result = <<>> /\ main.pc = "wait") => ~SomeTaskUnfinished

\* C2: when a candidate list was found and the validator's verdict on the
\* matrix assembled from it is False, the run writes 'The candidate vectors
\* are not valid.' and not the success report.
C2_InvalidCandidateReported ==
    (/\ main.pc = "done"
     /\ result # <<>>
     /\ is_valid_gen_vec_constr(main.gen_vec_matrix).tuple[1] = FALSE)
        => main.output = "The candidate vectors are not valid."

\* a worker is in sequential_search at a tree node it has not yet tested
AtTreeNode(w) ==
    /\ workers[w].pc = "search"
    /\ AtPc(workers[w].call, "start")
    /\ Top(workers[w].call).level <= search.height

\* C3 as stated: once the flag is set, a worker in sequential_search that is
\* at a tree node does not run the node's tests: it stops there.
C3_StopsAtNextNode ==
    [][\A w \in DOMAIN workers :
            (is_finished /\ AtTreeNode(w))
                => (workers'[w] = workers[w] \/ workers'[w].pc # "search")]_vars

\* C3: the flag is read by a worker only at the head of its loop: it goes on to
\* task_queue.get() only with the flag unset and to the final put with it set;
\* inside sequential_search every step is a step of the search whatever the
\* flag is, and the search is left only when the call has returned or raised,
\* or when main terminates the process.
C3_FlagReadOnlyAtLoopHead ==
    [][\A w \in DOMAIN workers :
            /\ (workers[w].pc = "while" /\ workers'[w] # workers[w])
                    => workers'[w].pc \in {IF is_finished THEN "put_stop" ELSE "get",
                                           "terminated"}
            /\ (workers[w].pc = "search" /\ workers'[w].pc = "search"
                    /\ workers'[w] # workers[w])
                    => workers'[w].call \in
                            sequential_search_leaf(workers[w].call)
                            \cup sequential_search_closure(workers[w].call)
                            \cup sequential_search_resume(workers[w].call)
                            \cup sequential_search_sample(workers[w].call)
                            \cup sequential_search_loop(workers[w].call)
                            \cup sequential_search_exhausted(workers[w].call)
            /\ (workers[w].pc = "search" /\ workers'[w].pc # "search")
                    => \/ workers[w].call.status \in {"returned", "raised"}
                       \/ workers'[w].pc = "terminated"]_vars

\* the flag is set, main has gone on, and a worker not yet terminated is in
\* sequential_search at a tree node
C3_Witness ==
    /\ is_finished
    /\ main.pc # "wait"
    /\ \E w \in DOMAIN workers : AtTreeNode(w)
(***************************************************************************)
(* Properties of code_description.py (checked under SpecCD).               *)
(***************************************************************************)
\* the coordinates of participant i's block under the partition pi
Coordinates(pi, i) == (Sum(SubSeq(pi, 1, i - 1)) + 1)..Sum(SubSeq(pi, 1, i))

\* the coordinates of the blocks of the participants in x
CoordinatesOf(pi, x) == UNION {Coordinates(pi, i) : i \in x}

\* the participants with a nonzero coordinate of c in their block
BlocksHit(c, pi) == {i \in 1..Len(pi) : \E j \in Coordinates(pi, i) : c[j] # 0}

\* a comes before b in the lexicographic order of tuples of the same length
LexLess(a, b) == \E n \in DOMAIN a : a[n] < b[n] /\ \A h \in 1..(n - 1) : a[h] = b[h]

\* the labels of the unit test: pi (2, 3, 2, 3) over GF(2), x_i {2, 3}
TestLabels(lin_span) == generate_label(1..4, <<2, 3, 2, 3>>, {2, 3}, 2, lin_span)

TestSpan == span(2, {<<0, 1, 1, 0, 1, 0, 0, 0, 0, 0>>, <<0, 0, 0, 0, 0, 1, 0, 0, 1, 0>>}, 10)

\* C16: generate_label never yields the all-zero vector, never yields a
\* vector that is a member of the supplied lin_span, and every vector it
\* yields has p-support contained in x_i: all blocks of participants outside
\* x_i are zero.
C16_LabelsAdmissible ==
    outcome.function = "generate_label" =>
        \A n \in DOMAIN outcome.value :
            LET c == outcome.value[n].c
            IN  /\ \E j \in DOMAIN c : c[j] # 0
                /\ c \notin given.lin_span
                /\ p_support(outcome.value[n]) \subseteq given.x
                /\ \A j \in DOMAIN c : j \notin CoordinatesOf(given.pi, given.x) => c[j] = 0

\* C16 witness: labels were generated for a proper, non-empty x_i and a span
\* that holds a nonzero vector inside the blocks of x_i.
C16_Witness ==
    /\ outcome.function = "generate_label"
    /\ Len(outcome.value) >= 2
    /\ given.x # 1..Len(given.pi)
    /\ \E w \in given.lin_span : w # Zero(Sum(given.pi)) /\ BlocksHit(w, given.pi) \subseteq given.x

\* the unit test's list: the 31 nonzero fillings of coordinates 3..7, in
\* counting order, with the empty list and with a span that meets the
\* subspace only in zero
C17_Test ==
    \A labels \in {TestLabels({}), TestLabels(TestSpan)} :
        /\ Len(labels) = 31
        /\ \A n \in 1..31 :
                labels[n] = Vector([j \in 1..10 |->
                                        IF j \in 3..7 THEN (n \div Power(2, 7 - j)) % 2 ELSE 0],
                                   <<2, 3, 2, 3>>)

\* C17: generate_label yields, without repetition and in lexicographic order
\* of the field-element tuples, exactly every nonzero vector whose p-support
\* is contained in x_i and that is not in lin_span; with a span that meets
\* that subspace only in zero it yields q^(sum of pi_i for i in x_i) - 1
\* vectors.
C17_LabelsExact ==
    /\ C17_Test
    /\ outcome.function = "generate_label" =>
        LET labels == outcome.value
            m == Sum(given.pi)
            subspace == {c \in AllVectors(given.q, m) : BlocksHit(c, given.pi) \subseteq given.x}
        IN  /\ {labels[n].c : n \in DOMAIN labels} = (subspace \ {Zero(m)}) \ given.lin_span
            /\ \A n \in DOMAIN labels : labels[n].parameters = given.pi
            /\ \A n, h \in DOMAIN labels : n < h => LexLess(labels[n].c, labels[h].c)
            /\ NoRepeat(labels)
            /\ (subspace \cap given.lin_span) \subseteq {Zero(m)} =>
                    Len(labels) = Power(given.q, Cardinality(CoordinatesOf(given.pi, given.x))) - 1

\* C17 witness: three or more labels were generated over GF(3) for a proper
\* x_i, with a span that takes some vectors of the subspace away.
C17_Witness ==
    /\ outcome.function = "generate_label"
    /\ given.q = 3
    /\ Len(outcome.value) >= 3
    /\ given.x # 1..Len(given.pi)
    /\ Len(outcome.value) < Power(3, Cardinality(CoordinatesOf(given.pi, given.x))) - 1

\* the vectors of the unit test
C18_Test ==
    /\ p_support(Vector(<<0, 0, 0, 0, 0, 0, 0, 0>>, <<2, 2, 2, 2>>)) = {}
    /\ p_support(Vector(<<0, 1, 0, 0, 1, 0, 0, 0>>, <<2, 2, 2, 2>>)) = {1, 3}
    /\ p_support(Vector(<<1, 0, 1, 0, 1, 0, 1, 0>>, <<2, 2, 2, 2>>)) = {1, 2, 3, 4}

\* C18: p_support(v) is exactly the set of 1-based block indices i whose
\* block of v, under v's partition, has at least one nonzero coordinate; it
\* is empty for the all-zero vector.
C18_PSupport ==
    /\ C18_Test
    /\ outcome.function = "p_support" =>
        /\ outcome.value = BlocksHit(given.v.c, given.v.parameters)
        /\ (\A j \in DOMAIN given.v.c : given.v.c[j] = 0) => outcome.value = {}

\* C18 witness: p_support was called on a vector with an all-zero block and
\* a block whose first coordinate is zero and whose second is not.
C18_Witness ==
    /\ outcome.function = "p_support"
    /\ given.pi = <<1, 2>>
    /\ given.v.c[1] = 0 /\ given.v.c[2] = 0 /\ given.v.c[3] # 0
    /\ outcome.value = {2}

\* the coordinates of the blocks of x, in ascending order
Kept(pi, x) == sorted(CoordinatesOf(pi, x))

\* the unit test's projections
C19_Test ==
    LET pi == <<2, 2, 2, 2>>
        v0 == Vector(<<0, 0, 0, 0, 0, 0, 0, 0>>, pi)
        v1 == Vector(<<0, 1, 0, 0, 1, 0, 0, 0>>, pi)
        v2 == Vector(<<1, 0, 1, 0, 1, 0, 1, 0>>, pi)
    IN  /\ projection(v0, {2, 4}, pi) = Vector(<<0, 0, 0, 0>>, <<2, 2>>)
        /\ projection(v1, {1, 2}, pi) = Vector(<<0, 1, 0, 0>>, <<2, 2>>)
        /\ projection(v2, {1, 2, 3, 4}, pi) = v2

\* C19: projection of a block vector onto the full participant set returns
\* a vector equal to the original (same values and partition); projection
\* onto a subset X returns the blocks of the participants in X concatenated
\* in ascending participant order, with partition (pi_i for i in X).
C19_Projection ==
    /\ C19_Test
    /\ (outcome.function = "projection" /\ given.x # {}) =>
        LET kept == Kept(given.pi, given.x)
            xs == sorted(given.x)
        IN  /\ ~Raised(outcome.value)
            /\ outcome.value.c = [n \in DOMAIN kept |-> given.v.c[kept[n]]]
            /\ outcome.value.parameters = [n \in DOMAIN xs |-> given.pi[xs[n]]]
            /\ given.x = 1..Len(given.pi) => outcome.value = given.v

\* C19 witness: a vector of three blocks with different first and last
\* coordinates was projected onto participants 1 and 3.
C19_Witness ==
    /\ outcome.function = "projection"
    /\ given.pi = <<1, 1, 1>>
    /\ given.x = {1, 3}
    /\ given.v.c[1] # given.v.c[3] /\ given.v.c[2] # given.v.c[3]
    /\ outcome.value.c = <<given.v.c[1], given.v.c[3]>>

\* C20: projection onto an empty participant set fails with a ValueError for
\* every vector, and produces no result.
C20_EmptyProjection ==
    /\ \A pi \in Partitions :
            projection(all_zero(pi), {}, pi) = Raise("ValueError")
    /\ (outcome.function = "projection" /\ given.x = {}) =>
            /\ outcome.value = Raise("ValueError")
            /\ "c" \notin DOMAIN outcome.value

\* C20 witness: a nonzero vector of two blocks was projected onto the empty
\* set.
C20_Witness ==
    /\ outcome.function = "projection"
    /\ given.x = {}
    /\ Len(given.pi) = 2
    /\ given.v.c # Zero(Sum(given.pi))
    /\ Raised(outcome.value)

\* the calls of the unit test
C21_Test ==
    /\ epsilon(0, 1) = <<>>
    /\ epsilon(1, 0) = <<>>
    /\ epsilon(0, 0 - 1) = <<>>
    /\ epsilon(0 - 1, 1) = <<>>
    /\ epsilon(1, 1) = <<<<1, 1>>>>
    /\ epsilon(3, 2) = <<<<1, 1>>, <<2, 1>>, <<3, 1>>, <<1, 2>>, <<2, 2>>, <<3, 2>>>>

\* C21: epsilon(r, k) returns the r*k pairs (i, j) with 1 <= i <= r and
\* 1 <= j <= k, each exactly once, ordered j-major / i-minor; if r <= 0 or
\* k <= 0 it returns the empty list.
C21_Epsilon ==
    /\ C21_Test
    /\ outcome.function = "epsilon" =>
        LET e == outcome.value
        IN  IF given.r <= 0 \/ given.k <= 0 THEN e = <<>>
            ELSE /\ Len(e) = given.r * given.k
                 /\ {e[m] : m \in DOMAIN e} = (1..given.r) \X (1..given.k)
                 /\ NoRepeat(e)
                 /\ \A m, n \in DOMAIN e :
                        m < n => \/ e[m][2] < e[n][2]
                                 \/ e[m][2] = e[n][2] /\ e[m][1] < e[n][1]

\* C21 witness: epsilon(3, 2) was called and its fourth pair is (1, 2).
C21_Witness ==
    /\ outcome.function = "epsilon"
    /\ given.r = 3 /\ given.k = 2
    /\ Len(outcome.value) = 6
    /\ outcome.value[4] = <<1, 2>>

UnitVector(j, dim) == [i \in 1..dim |-> IF i = j THEN 1 ELSE 0]

\* the calls of the unit test
C22_Test ==
    /\ jth_unit_vector(1, 3) = [vector |-> <<1, 0, 0>>]
    /\ jth_unit_vector(2, 3) = [vector |-> <<0, 1, 0>>]
    /\ jth_unit_vector(0, 3) = Raise("ValueError")
    /\ jth_unit_vector(5, 3) = Raise("ValueError")

\* C22: jth_unit_vector(j, dim) fails with a ValueError when j = 0 or
\* j > dim; for 1 <= j <= dim it returns the length-dim vector with 1 at
\* position j and 0 elsewhere.
C22_UnitVector ==
    /\ C22_Test
    /\ outcome.function = "jth_unit_vector" =>
        /\ (given.j = 0 \/ given.j > given.dim) => outcome.value = Raise("ValueError")
        /\ given.j \in 1..given.dim =>
                /\ ~Raised(outcome.value)
                /\ outcome.value.vector = UnitVector(given.j, given.dim)
                /\ Len(outcome.value.vector) = given.dim

\* C22 witness: the call with j = 0 and dim = 3 has raised.
C22_Witness ==
    /\ outcome.function = "jth_unit_vector"
    /\ given.j = 0 /\ given.dim = 3
    /\ Raised(outcome.value)

\* C23: jth_unit_vector(j, dim) raises for every integer j outside 1..dim,
\* negative j included, and never returns a vector for such j.
C23_OutOfRangeRaises ==
    (outcome.function = "jth_unit_vector" /\ given.j \notin 1..given.dim) =>
        Raised(outcome.value)

\* what the code does for a negative j: e[j - 1] counts from the end, so for
\* 0 - dim < j < 0 the vector with 1 at position dim + j is returned, and for
\* j <= 0 - dim the list index is out of range
C23_NegativeIndex ==
    (outcome.function = "jth_unit_vector" /\ given.j < 0) =>
        IF given.j > 0 - given.dim
        THEN outcome.value = [vector |-> UnitVector(given.dim + given.j, given.dim)]
        ELSE outcome.value = Raise("IndexError")

(***************************************************************************)
(* Properties of the validator (checked under SpecValidator).               *)
(***************************************************************************)
\* the participant who holds column c of the matrix, columns counted from 1
Holder(c) ==
    CHOOSE i \in DOMAIN search.parameters :
        /\ Sum(SubSeq(search.parameters, 1, i - 1)) < c
        /\ c <= Sum(SubSeq(search.parameters, 1, i))

\* the linear combinations of the columns of G that the participants in X hold
SpanOfShares(G, X) ==
    LET C == 1..Sum(search.parameters)
    IN  {[i \in DOMAIN G |-> Sum([c \in C |-> co[c] * G[i][c]]) % search.base_ring]
            : co \in {f \in [C -> 0..(search.base_ring - 1)] :
                        \A c \in C : Holder(c) \notin X => f[c] = 0}}

\* every one of the k unit vectors is spanned by the shares of each set
V1For(G, sets) ==
    \A i \in DOMAIN sets : \A j \in 1..search.k :
        [h \in DOMAIN G |-> IF h = j THEN 1 ELSE 0] \in SpanOfShares(G, sets[i])

\* the shares of no set span a nonzero combination of the k unit vectors
V2For(G, sets) ==
    \A i \in DOMAIN sets : \A v \in SpanOfShares(G, sets[i]) :
        (\A h \in (search.k + 1)..Len(G) : v[h] = 0) => v = Zero(Len(G))

\* the matrix has a row for each unit vector and a column for each share
WellShaped(G) ==
    /\ Len(G) >= search.k
    /\ Len(G[1]) >= Sum(search.parameters)

\* C24: for a matrix with at least k rows and a column for every share the
\* validator returns a tuple whose first element is True exactly when V1 holds
\* for every set of gamma_min and V2 for every set of delta_max, and these
\* conditions over gamma_min and delta_max hold exactly when they hold over
\* all of gamma and all of delta
C24_Verdict ==
    (outcome.function = "is_valid_gen_vec_constr" /\ WellShaped(given.possible_matrix)) =>
        LET G == given.possible_matrix
            minimal == V1For(G, search.ac.gamma_min) /\ V2For(G, search.ac.delta_max)
        IN  /\ ~Raised(outcome.value)
            /\ outcome.value.tuple[1] <=> minimal
            /\ minimal <=> (V1For(G, search.ac.gamma) /\ V2For(G, search.ac.delta))

\* a matrix was accepted and gamma has a set that is not minimal, delta one
\* that is not maximal
C24_Witness ==
    /\ outcome.function = "is_valid_gen_vec_constr"
    /\ WellShaped(given.possible_matrix)
    /\ ~Raised(outcome.value)
    /\ outcome.value.tuple[1]
    /\ Len(search.ac.gamma) > Len(search.ac.gamma_min)
    /\ Len(search.ac.delta) > Len(search.ac.delta_max)
(***************************************************************************)
(* Properties of the task channel (checked under SpecPar).                  *)
(***************************************************************************)
\* the step puts item x on the task channel
Puts(x) == task_queue' = Append(task_queue, x)

\* C25 as stated: every run that is over has put the sentinel
C25_ExactlyOneSentinel == main.pc \in {"done", "raised"} => builder.pc = "exit"

\* C25: the sentinel is put by the step with which submit_tasks ends, after
\* parallel_search has returned; a task is put only while submit_tasks is in
\* parallel_search; and a task builder that has left parallel_search (ended,
\* died of an exception or was terminated) never comes back: so at most one
\* sentinel is put in a run and nothing is put after it
C25_SentinelLast ==
    [][/\ Puts(DONE) => /\ builder.pc = "search"
                        /\ builder.call.status = "returned"
                        /\ builder'.pc = "exit"
       /\ Len(task_queue') > Len(task_queue) =>
            /\ builder.pc = "search"
            /\ Puts(DONE) \/ (Puts(task_queue'[Len(task_queue')])
                                /\ task_queue'[Len(task_queue')].kind = "task"
                                /\ builder'.pc = "search")
       /\ builder.pc # "search" => builder'.pc # "search"]_vars

\* the sentinel has been put after a task that a worker is searching
C25_Witness ==
    /\ builder.pc = "exit"
    /\ task_queue = <<DONE>>
    /\ \E w \in DOMAIN workers : workers[w].pc = "search"
(***************************************************************************)
(* Properties of the seeded search (checked under SpecSeeded).              *)
(***************************************************************************)
\* every configuration the call of sequential_search can be in after its
\* next step
Successors ==
    sequential_search_leaf(run) \cup sequential_search_closure(run)
    \cup sequential_search_resume(run) \cup sequential_search_sample(run)
    \cup sequential_search_loop(run) \cup sequential_search_exhausted(run)

\* list(generate_label(...)) at the node of frame f
Population(f) ==
    generate_label(search.ac.participants, search.parameters,
                   x_i_of(f.level),
                   search.base_ring, f.span_of_labels)

\* C26: from a known state of the generator the call of sequential_search has
\* one next step at most, with one outcome: the search object, the arguments
\* and the generator's state determine the label tested next, the outcome of
\* its test and the value returned, so two runs that start alike go through
\* the same steps
C26_OneNextStep == random.seeded => Cardinality(Successors) <= 1

\* a node tests a sample of two labels or more, the first one of which is not
\* the first label generated
C26_Witness ==
    /\ random.seeded
    /\ AtPc(run, "loop")
    /\ Len(Top(run).generated_labels) >= 2
    /\ Top(run).todo = Len(Top(run).generated_labels)
    /\ Top(run).generated_labels[1] # Population(Top(run))[1]
(***************************************************************************)
(* Properties of the set of a level (checked under SpecLevel).              *)
(***************************************************************************)
\* C27: the set used at a level is gamma_min[i], (i, j) the level's pair of
\* the epsilon sequence
C27_LevelSet ==
    outcome.function = "x_i" =>
        outcome.value = search.ac.gamma_min[search.eps[given.level][1]]

\* with fewer than ten minimal sets the set used at a level is gamma_min[i]
C27_BelowTen ==
    (outcome.function = "x_i" /\ Len(search.ac.gamma_min) < 10) =>
        outcome.value = search.ac.gamma_min[search.eps[given.level][1]]
(***************************************************************************)
(* Properties of the order of the tests at a node (checked under SpecSeq).  *)
(***************************************************************************)
\* the step is a turn of the loop of the innermost call, which stays in
\* progress
TurnOfLoop == AtPc(run, "loop") /\ Top(run).todo > 0 /\ run'.status = "running"

\* the label a turn of the loop tests: the frame of the node has it in s_m
\* under the key of the level after the step
Tested ==
    run'.stack[Len(run.stack)].s_m[eps_for_this_level(Top(run).level)]

\* the place of a label in the enumeration of the node of frame f
Place(f, label) == CHOOSE i \in DOMAIN Population(f) : Population(f)[i] = label

\* whether the loop of the node of frame f has tested a label
HasTested(f) == f.pc \in {"loop", "loop_called"} /\ f.level \in f.s_n

\* C28 as stated: a label tested at a node comes later in the enumeration of
\* generate_label than the label the node tested before it
C28_EnumerationOrder ==
    [][(TurnOfLoop /\ HasTested(Top(run))) =>
            Place(Top(run), Top(run).s_m[eps_for_this_level(Top(run).level)])
                < Place(Top(run), Tested)]_vars

\* C28: a label tested at a node is one of the labels generate_label yielded
\* at the node that the node has not tested before, and it counts as one of
\* the int((1 - skip) * len) labels kept; the order among them is any
C28_SampleOrder ==
    [][TurnOfLoop =>
            LET f == Top(run)
                g == run'.stack[Len(run.stack)]
                remaining(h) == {h.generated_labels[i] : i \in DOMAIN h.generated_labels}
            IN  /\ \E i \in DOMAIN Population(f) : Population(f)[i] = Tested
                /\ Tested \in remaining(f)
                /\ Tested \notin remaining(g)
                /\ remaining(g) = remaining(f) \ {Tested}
                /\ g.todo = f.todo - 1
                /\ Len(f.generated_labels) - f.todo
                        = Len(Population(f)) - ((2 - f.skip) * Len(Population(f))) \div 2]_vars

\* without skipping, a node has tested a label and has still to test one that
\* generate_label yielded before it
C28_Witness ==
    /\ AtPc(run, "loop")
    /\ HasTested(Top(run))
    /\ Top(run).skip = 0
    /\ Top(run).todo > 0
    /\ \E i \in DOMAIN Top(run).generated_labels :
            Place(Top(run), Top(run).generated_labels[i])
                < Place(Top(run), Top(run).s_m[eps_for_this_level(Top(run).level)])
(***************************************************************************)
(* Properties of the search without skipping (checked under SpecSeq).       *)
(***************************************************************************)
\* the free-direction label of a node whose path has the labels s_m: the
\* vectors of their span with a support inside the set of the level
FreeLabel(level, s_m) ==
    LET labels == _break_labels(values(s_m))
        span_of_labels == span(search.base_ring, {labels[i].c : i \in DOMAIN labels},
                               Sum(search.parameters))
        inside == InLexOrder(search.base_ring,
                      {v \in span_of_labels :
                          p_support(Vector(v, search.parameters)) \subseteq x_i_of(level)})
    IN  List(_break_labels([i \in DOMAIN inside |-> Vector(inside[i], search.parameters)]))

\* the labels generate_label yields at such a node
ConcreteLabels(level, s_m) ==
    LET labels == _break_labels(values(s_m))
        yielded == generate_label(search.ac.participants, search.parameters,
                                  x_i_of(level), search.base_ring,
                                  span(search.base_ring, {labels[i].c : i \in DOMAIN labels},
                                       Sum(search.parameters)))
    IN  {yielded[i] : i \in DOMAIN yielded}

\* whether a leaf lies below a node: some label of the node tests admissible
\* and a leaf lies below the node it leads to
RECURSIVE LeafBelow(_, _, _, _, _, _)
LeafBelow(level, s_m, s_n, aa, ba, ca) ==
    IF level > search.height THEN TRUE
    ELSE \/ \E o \in _determine_d_plus(level, x_i_of(level), FreeLabel(level, s_m),
                                        s_n, aa, ba, ca) :
                /\ ~Raised(o)
                /\ o.b
                /\ LeafBelow(level + 1, s_m, s_n, o.ab, o.bb, o.cb)
         \/ \E label \in ConcreteLabels(level, s_m) :
              \E o \in _determine_d_plus(level, x_i_of(level), label,
                                         s_n \cup {level}, aa, ba, ca) :
                /\ ~Raised(o)
                /\ o.b
                /\ LeafBelow(level + 1,
                             ExtendPath(s_m, eps_for_this_level(level), label),
                             s_n \cup {level}, o.ab, o.bb, o.cb)

\* the step ends the innermost call with an empty list
ReturnsEmpty ==
    /\ run.status = "running"
    /\ run'.status \in {"resume", "returned"}
    /\ run'.value = <<>>

\* C29: with skip = 0 a call of sequential_search returns an empty list only
\* from the end of its loop, with the free-direction label tested, no label
\* of generate_label left untested, and no leaf below the node: every label
\* that tests admissible leads to a node below which there is no leaf
C29_Exhaustive ==
    [][(ReturnsEmpty /\ Top(run).skip = 0) =>
            LET f == Top(run)
                key == eps_for_this_level(f.level)
                s_m == [kk \in DOMAIN f.s_m \ {key} |-> f.s_m[kk]]
            IN  /\ f.pc = "loop"
                /\ f.todo = 0
                /\ f.generated_labels = <<>>
                /\ (ConcreteLabels(f.level, s_m) # {}) => HasTested(f)
                /\ ~LeafBelow(f.level, s_m, f.s_n \ {f.level}, f.aa, f.ba, f.ca)]_vars

\* without skipping, the subtree of a concrete label that tested admissible
\* has been searched and has returned an empty list
C29_Witness ==
    /\ run.status = "resume"
    /\ run.value = <<>>
    /\ Top(run).skip = 0
    /\ Top(run).pc = "loop_called"
(***************************************************************************)
(* Properties of the order of the tests at a node, the free direction       *)
(* first (checked under SpecSeq).                                           *)
(***************************************************************************)
\* the calls in progress that have not gone beyond the free-direction test
\* have tested no label of generate_label, nor generated one
NothingTestedYet ==
    \A i \in DOMAIN run.stack :
        run.stack[i].pc \in {"start", "closure_called"} =>
            /\ run.stack[i].level \notin run.stack[i].s_n
            /\ run.stack[i].level <= search.height =>
                    eps_for_this_level(run.stack[i].level) \notin DOMAIN run.stack[i].s_m
            /\ run.stack[i].generated_labels = <<>>
            /\ run.stack[i].todo = 0

\* the step is the first one of a call at a node that is not a leaf, and
\* the call stays in progress
FirstStep ==
    /\ AtPc(run, "start")
    /\ Top(run).level <= search.height
    /\ run'.status = "running"

\* the step tests the free-direction label of the node, calls the search of
\* level + 1 with the lists of the test if the label is admissible, and goes
\* on to generate_label if it is not
TestsFreeDirection ==
    LET f == Top(run)
        g == run'.stack[Len(run.stack)]
    IN  \E o \in _determine_d_plus(f.level, x_i_of(f.level), FreeLabel(f.level, f.s_m),
                                    f.s_n, f.aa, f.ba, f.ca) :
            /\ ~Raised(o)
            /\ IF o.b
               THEN /\ g.pc = "closure_called"
                    /\ Len(run'.stack) = Len(run.stack) + 1
                    /\ Top(run').level = f.level + 1
                    /\ Top(run').pc = "start"
                    /\ Top(run').ca = o.cb
               ELSE /\ g.pc = "generate"
                    /\ Len(run'.stack) = Len(run.stack)

\* the innermost call in progress stays in progress; Top(run) is its frame
\* before the step and StaysAs its frame after it
Stays == run.stack # <<>> /\ Len(run'.stack) >= Len(run.stack)

StaysAs == run'.stack[Len(run.stack)]

\* C30: a call begins at its first statement; at a node its first step is
\* the test of the free-direction label, followed by the search of its
\* subtree if the label is admissible; the
\* call comes to generate_label only from that test, if the label is not
\* admissible, or when the search of the subtree has returned an empty list;
\* and labels of generate_label are tested in the loop only, which the call
\* enters from generate_label
C30_FreeDirectionFirst ==
    [][/\ NothingTestedYet
       /\ NothingTestedYet'
       /\ Len(run'.stack) > Len(run.stack) => Top(run').pc = "start"
       /\ FirstStep => TestsFreeDirection
       /\ (Stays /\ StaysAs.pc = "generate" /\ Top(run).pc # "generate") =>
            \/ Top(run).pc = "start"
            \/ Top(run).pc = "closure_called" /\ run.status = "resume" /\ run.value = <<>>
       /\ (Stays /\ StaysAs.pc = "loop" /\ Top(run).pc # "loop") =>
            Top(run).pc \in {"generate", "loop_called"}
       /\ (Stays /\ StaysAs.pc = "loop_called" /\ Top(run).pc # "loop_called") =>
            Top(run).pc = "loop"
       /\ (Stays /\ (StaysAs.s_m # Top(run).s_m \/ StaysAs.s_n # Top(run).s_n)) =>
            Top(run).pc = "loop"]_vars

\* the free-direction label was admissible, its subtree has returned an empty
\* list, and the node has tested a label of generate_label
C30_Witness ==
    /\ run.stack # <<>>
    /\ HasTested(Top(run))
    /\ \E o \in _determine_d_plus(Top(run).level, x_i_of(Top(run).level),
                    FreeLabel(Top(run).level,
                              [kk \in DOMAIN Top(run).s_m
                                        \ {eps_for_this_level(Top(run).level)} |->
                                    Top(run).s_m[kk]]),
                    Top(run).s_n \ {Top(run).level},
                    Top(run).aa, Top(run).ba, Top(run).ca) : ~Raised(o) /\ o.b
(***************************************************************************)
(* Properties of the admissibility test (checked under SpecDPlus).          *)
(***************************************************************************)
\* the sets of levels of the arithmetic test
MaxLevels == 6

\* the sum of S is the triangular number of its largest element
Triangular(S) == SumSet(S) = (Max(S) * (Max(S) + 1)) \div 2

\* C31: _d_plus accepts a list only when ca is not empty and s_n is the set
\* 1..m of all the levels up to its largest element m; and among the
\* non-empty sets of positive level indices the test of the sum holds for
\* these sets only
C31_UnbrokenPrefix ==
    /\ (outcome.function = "_d_plus" /\ isinstance_list(given.label)) =>
            \A o \in outcome.value :
                (~Raised(o) /\ o.b) =>
                    /\ given.ca # <<>>
                    /\ given.s_n # {}
                    /\ given.s_n = 1..Max(given.s_n)
    /\ outcome.function = "_d_plus" =>
            \A S \in SUBSET (1..MaxLevels) \ {{}} : Triangular(S) <=> S = 1..Max(S)

\* a list was accepted with two levels in s_n
C31_Witness ==
    /\ outcome.function = "_d_plus"
    /\ isinstance_list(given.label)
    /\ Cardinality(given.s_n) >= 2
    /\ \E o \in outcome.value : ~Raised(o) /\ o.b
UpperLevels(c) ==
    IF AtPc(c, "start") /\ Top(c).level = search.height \div 2 + 1
    THEN {Return(c, <<>>)}
    ELSE sequential_search_leaf(c) \cup sequential_search_closure(c)
         \cup sequential_search_resume(c) \cup sequential_search_sample(c)
         \cup sequential_search_loop(c) \cup sequential_search_exhausted(c)

\* the steps of parallel_search while the flag is not set
Uncancelled(c) ==
    IF AtPc(c, "start") /\ Top(c).level = SplitLevel
    THEN {parallel_search_enqueued(c)}
    ELSE parallel_search_closure(c, FALSE) \cup parallel_search_resume(c)
         \cup parallel_search_sample(c) \cup parallel_search_loop(c, FALSE)
         \cup parallel_search_exhausted(c)

\* the state (level, s_m, s_n, A, B, ca) of a frame
BranchState(f) == <<f.level, f.s_m, f.s_n, f.aa, f.ba, f.ca>>

\* C33: with skip = 0 and the flag not set, parallel_search and the
\* exhaustive sequential_search of the upper levels are the same machine:
\* at every node the task builder reaches, the steps parallel_search can take
\* are the steps sequential_search can take, the step the builder takes is one
\* of them, and the entry of sequential_search to the split level is the step
\* that puts one task, with the branch state of that entry
C33_SameUpperLevels ==
    [][(args.skip = 0 /\ ~is_finished /\ builder.pc = "search"
            /\ builder.call.status \in {"running", "resume"}) =>
         /\ Uncancelled(builder.call) = UpperLevels(builder.call)
         /\ (builder' # builder /\ builder'.pc = "search") =>
                /\ builder'.call \in UpperLevels(builder.call)
                /\ (AtPc(builder.call, "start")
                        /\ Top(builder.call).level = search.height \div 2 + 1)
                    <=> Len(task_queue') > Len(task_queue)
                /\ Len(task_queue') > Len(task_queue) =>
                        LET task == task_queue'[Len(task_queue')]
                        IN  /\ Puts(task)
                            /\ task.kind = "task"
                            /\ BranchState(task) = BranchState(Top(builder.call))
                            /\ task.skip = 0]_vars

\* two branches were admissible above the split level: a worker searches the
\* task of one of them and the task of another is on the channel
C33_Witness ==
    /\ args.skip = 0
    /\ ~is_finished
    /\ task_queue # <<>>
    /\ Head(task_queue).kind = "task"
    /\ builder.pc = "search"
    /\ \E w \in DOMAIN workers :
            /\ workers[w].pc = "search"
            /\ workers[w].call.stack # <<>>
            /\ workers[w].call.stack[1].ca # Head(task_queue).ca

\* the task builder is at the first statement of a call of parallel_search at
\* the split level: the flag was looked at before the call and the put is next
Committed ==
    /\ builder.pc = "search"
    /\ AtPc(builder.call, "start")
    /\ Top(builder.call).level = search.height \div 2 + 1

\* the step puts a task on the task channel
PutsTask ==
    /\ Len(task_queue') > Len(task_queue)
    /\ task_queue'[Len(task_queue')].kind = "task"

\* C34 as stated: once the flag is set the task builder leaves parallel_search
\* by unwinding and putting the sentinel only
C34_UnwindsToSentinel ==
    [][(is_finished /\ builder.pc = "search") => builder'.pc \in {"search", "exit"}]_vars

\* C34: once the flag is set parallel_search calls itself no more; a task is
\* put after that only by a call at the split level that was made before, and
\* when that call has put its task there is no such call ever again: at most
\* one task is put after the flag is set, and the sentinel, if it is put, is
\* put when parallel_search has returned
C34_AtMostOneMoreTask ==
    [][is_finished =>
         /\ Len(builder'.call.stack) <= Len(builder.call.stack)
         /\ PutsTask => Committed /\ ~Committed'
         /\ ~Committed => ~Committed'
         /\ Puts(DONE) => builder.call.status = "returned"]_vars

\* the flag is set while a call at the split level, made before, can put its
\* task
C34_Witness ==
    /\ is_finished
    /\ Committed
    /\ Len(builder.call.stack) >= 2
    /\ Len(task_queue) < args.queuesize
(***************************************************************************)
(* Properties of the state of a branch (checked under SpecSearch).          *)
(***************************************************************************)
\* the calls in progress in c that are still in progress in d have in d the
\* level, the matrices A and B and the list ca they have in c
FramesKept(c, d) ==
    \A i \in DOMAIN c.stack \cap DOMAIN d.stack :
        /\ d.stack[i].level = c.stack[i].level
        /\ d.stack[i].aa = c.stack[i].aa
        /\ d.stack[i].ba = c.stack[i].ba
        /\ d.stack[i].ca = c.stack[i].ca

\* a call made by the step from c to d was given what _determine_d_plus
\* returned for the caller's own A, B and ca: for a label of the loop, one of
\* its outcomes for that label; for every label, the caller's ca and one
\* vector more
ChildOfParent(c, d) ==
    Len(d.stack) = Len(c.stack) + 1 /\ Len(c.stack) >= 1 =>
        LET f == Top(c)
            parent == d.stack[Len(c.stack)]
            child == Top(d)
        IN  /\ Len(child.ca) = Len(f.ca) + 1
            /\ SubSeq(child.ca, 1, Len(f.ca)) = f.ca
            /\ parent.pc = "loop_called" =>
                    \E o \in _determine_d_plus(f.level, x_i_of(f.level),
                                                child.s_m[eps_for_this_level(f.level)],
                                                child.s_n, f.aa, f.ba, f.ca) :
                        /\ ~Raised(o)
                        /\ o.b
                        /\ child.aa = o.ab
                        /\ child.ba = o.bb
                        /\ child.ca = o.cb

\* C35: no step of a search changes the A, B or ca of a call in progress,
\* whether the label it tests is accepted or rejected, so every label of a
\* node is tested against the state with which the node was entered; and an
\* item on the task channel stays as it was put until a worker takes it, and
\* the worker starts from the state that was put
C35_BranchStatePrivate ==
    [][/\ FramesKept(run, run') /\ ChildOfParent(run, run')
       /\ FramesKept(builder.call, builder'.call)
       /\ ChildOfParent(builder.call, builder'.call)
       /\ \A w \in DOMAIN workers \cap DOMAIN workers' :
                /\ FramesKept(workers[w].call, workers'[w].call)
                /\ ChildOfParent(workers[w].call, workers'[w].call)
       /\ \/ /\ Len(task_queue') >= Len(task_queue)
             /\ SubSeq(task_queue', 1, Len(task_queue)) = task_queue
          \/ /\ task_queue # <<>>
             /\ task_queue' = Tail(task_queue)
             /\ Head(task_queue).kind = "task" =>
                    \E w \in DOMAIN workers' :
                        /\ workers[w].call.stack = <<>>
                        /\ Len(workers'[w].call.stack) = 1
                        /\ BranchState(workers'[w].call.stack[1])
                                = BranchState(Head(task_queue))]_vars

\* the root has tested two of its labels at least and goes on to another with
\* the A, B and ca it was entered with
C35_Witness ==
    /\ run.status = "running"
    /\ Len(run.stack) = 1
    /\ run.stack[1].pc = "loop"
    /\ run.stack[1].todo > 0
    /\ run.stack[1].todo + 2
            <= ((2 - run.stack[1].skip) * Len(Population(run.stack[1]))) \div 2
    /\ run.stack[1].aa = RootFrame(0).aa
    /\ run.stack[1].ba = RootFrame(0).ba
    /\ run.stack[1].ca = <<>>
\* C37: the shared list result is written once in a run at most, by the
\* monitor, when it is empty, with a non-empty list that a worker put on the
\* result channel, and the flag is set in the same step; every list on that
\* channel is the value a worker's sequential_search returned; after the
\* write the monitor reads no more; so result is empty or one list of one
\* candidate for every level
C37_WrittenOnce ==
    /\ [](result # <<>> => is_finished /\ Len(result) = search.height)
    /\ [][/\ result' # result =>
                /\ result = <<>>
                /\ ~is_finished
                /\ is_finished'
                /\ monitor = "get"
                /\ done_queue # <<>>
                /\ Head(done_queue) = Res(result')
          /\ Len(done_queue') > Len(done_queue) =>
                LET item == done_queue'[Len(done_queue')]
                IN  item.kind = "res" =>
                        \E w \in DOMAIN workers :
                            /\ workers[w].pc = "search"
                            /\ workers[w].call.status = "returned"
                            /\ workers[w].call.value = item.value
          /\ result # <<>> => Len(done_queue') >= Len(done_queue)]_vars

\* the run is over with a solution in result while another solution, found
\* by the other worker, was never read
C37_Witness ==
    /\ main.pc \in {"done", "raised"}
    /\ result # <<>>
    /\ \E i \in DOMAIN done_queue :
            done_queue[i].kind = "res" /\ done_queue[i].value # <<>>

\* the candidates of the list ca have their p-supports in the sets of their
\* levels
SupportsInSets(ca) ==
    \A L \in DOMAIN ca : p_support(ca[L]) \subseteq x_i_of(L)

\* the step made a call for the free-direction label: the candidate added is
\* the combination the closure rule found
ClosureCommitted(c, d) ==
    /\ Len(d.stack) = Len(c.stack) + 1
    /\ Len(c.stack) >= 1
    /\ d.stack[Len(c.stack)].pc = "closure_called"

\* C39: in every branch state (the frames of the sequential search, of the
\* task builder and of the workers, the tasks on the channel, the lists the
\* workers return and the result) the candidate of every level L has its
\* p-support in the set X_i used at level L; in particular the candidate a
\* step adds by the closure rule has, and is a combination of the earlier ones
C39_SupportInLevelSet ==
    /\ [](\A c \in Calls :
            /\ \A i \in DOMAIN c.stack : SupportsInSets(c.stack[i].ca)
            /\ c.status \in {"resume", "returned"} => SupportsInSets(c.value))
    /\ [](\A i \in DOMAIN task_queue :
            task_queue[i].kind = "task" => SupportsInSets(task_queue[i].ca))
    /\ [](\A i \in DOMAIN done_queue :
            done_queue[i].kind = "res" => SupportsInSets(done_queue[i].value))
    /\ []SupportsInSets(result)
    /\ [][ClosureCommitted(run, run') =>
            /\ Top(run').ca[Len(Top(run').ca)].c
                    \in span(search.base_ring,
                             {Top(run).ca[m].c : m \in DOMAIN Top(run).ca},
                             Sum(search.parameters))
            /\ p_support(Top(run').ca[Len(Top(run').ca)])
                    \subseteq x_i_of(Top(run).level)]_vars

\* a candidate added by the closure rule is not the zero vector, and the
\* level's set differs from the set of the level it was combined from
C39_Witness ==
    /\ run.status = "running"
    /\ Len(run.stack) >= 2
    /\ run.stack[Len(run.stack) - 1].pc = "closure_called"
    /\ Top(run).pc = "start"
    /\ ~is_zero(Top(run).ca[Len(Top(run).ca)].c)
    /\ \E L \in 1..(Len(Top(run).ca) - 1) :
            /\ Top(run).ca[L] = Top(run).ca[Len(Top(run).ca)]
            /\ x_i_of(L) # x_i_of(Len(Top(run).ca))

(***************************************************************************)
(* Properties of the run under fair scheduling (checked under SpecParFair). *)
(***************************************************************************)
\* C36 as stated, for the runs in which no process dies of an exception: with
\* two workers or more, every worker comes to the end of process_tasks, where
\* it has put its "STOP", by itself
C36_EveryWorkerStops ==
    args.processors >= 2 =>
        <>(\/ \A w \in DOMAIN workers : workers[w].pc = "exit"
           \/ builder.pc = "dead"
           \/ \E w \in DOMAIN workers : workers[w].pc = "dead")

\* C38 as stated: every run sets the termination flag
C38_FlagEventuallySet == <>is_finished

\* every run in which no process dies of an exception sets the flag
C38_UnlessAProcessDies ==
    <>(\/ is_finished
       \/ builder.pc = "dead"
       \/ \E w \in DOMAIN workers : workers[w].pc = "dead")

\* the conditions written out in SpecParFair are those under which the search
\* actions have a step to take
SearchEnabled ==
    /\ BuilderSearchEnabled <=>
            /\ builder.pc = "search"
            /\ parallel_search_closure(builder.call, is_finished)
                    \cup parallel_search_resume(builder.call)
                    \cup parallel_search_sample(builder.call)
                    \cup parallel_search_loop(builder.call, is_finished)
                    \cup parallel_search_exhausted(builder.call) # {}
    /\ \A w \in DOMAIN workers :
            WorkerSearchEnabled(w) <=>
                /\ workers[w].pc = "search"
                /\ process_tasks_search(workers[w].call, is_finished) # {}

\* the steps written out in SpecParFair are those of the search actions and
\* of the report
SearchSteps ==
    [][/\ BuilderSearches <=> BuilderSearch
       /\ \A w \in DOMAIN workers :
            WorkerSearches(w) <=> (WorkerSearch /\ workers'[w] # workers[w])
       /\ MainReports <=> MainReport]_vars
====
